---- MODULE Spec2Model ----
(***************************************************************************)
(* Model of the PyEE unit algebra (pyee.types.units), SI prefix selection  *)
(* (pyee.types.prefixes) and scalar physical quantities                    *)
(* (pyee.types.physicalquantity).                                          *)
(*                                                                         *)
(* Python strings are sequences of one-character strings, dictionaries are *)
(* functions from their key set, Python floats are exact rationals         *)
(* <<numerator, denominator>>, and a raised exception is recorded by name  *)
(* in the result of the operation that raised it.                          *)
(***************************************************************************)
EXTENDS Integers, Sequences, FiniteSets, TLC

VARIABLES
    ustring,    \* the unit string handed to Units.from_string
    uchain,     \* the numerator and "/" segments ustring was assembled from
    parsed,     \* what Units.from_string(ustring) returned or raised
    u1,         \* a Units instance made by Units.from_string
    u2,         \* the Units instance returned by the last Units operator
    ulast,      \* the last Units call: its name, operands and result
    prefix_cls, \* the class attributes of Prefix (the loaded prefix tables)
    qa, qb,     \* PhysicalQuantity instances made by from_value
    plast,      \* the last Prefix or PhysicalQuantity call
    BooleanConfigParameter, \* the parameter of BooleanConfigParameter.instance
    ERROR_ON_Z_TRANSFORM,   \* the module flag of pyee.passives
    lastset,    \* per toggle of pyee/__init__.py, the last value set on it
    za, zb,     \* DependantPhysicalQuantity instances
    zlast,      \* the last DependantPhysicalQuantity or passive-component call
    simp,       \* the tol of the Impedance za and its running simplify() call
    callers,    \* the callers that use Prefix for the first time
    loads       \* how many times load_data_file has read the prefix file

parseVars == <<ustring, uchain, parsed>>

unitVars == <<u1, u2, ulast>>

loadVars == <<callers, loads>>

pqVars == <<prefix_cls, qa, qb, plast, callers, loads>>

cfgVars == <<BooleanConfigParameter, ERROR_ON_Z_TRANSFORM, lastset>>

dpqVars == <<za, zb, zlast, simp>>

vars == <<ustring, uchain, parsed, u1, u2, ulast, prefix_cls, qa, qb, plast,
          BooleanConfigParameter, ERROR_ON_Z_TRANSFORM, lastset, za, zb, zlast,
          simp, callers, loads>>

(***************************************************************************)
(* Python built-ins on strings and lists                                   *)
(***************************************************************************)

\* str.split(sep): the pieces between the occurrences of sep; never empty
RECURSIVE Split(_, _)
Split(s, sep) ==
    IF \E i \in 1..Len(s) : s[i] = sep
    THEN LET i == CHOOSE k \in 1..Len(s) :
                      s[k] = sep /\ \A j \in 1..(k-1) : s[j] # sep
         IN  <<SubSeq(s, 1, i-1)>> \o Split(SubSeq(s, i+1, Len(s)), sep)
    ELSE <<s>>

\* x[:-1]
AllButLast(s) == IF s = <<>> THEN <<>> ELSE SubSeq(s, 1, Len(s)-1)

\* x[1:]
TailStr(s) == IF s = <<>> THEN <<>> ELSE SubSeq(s, 2, Len(s))

\* "sep".join(parts)
RECURSIVE Join(_, _)
Join(parts, sep) ==
    IF parts = <<>> THEN <<>>
    ELSE IF Len(parts) = 1 THEN parts[1]
    ELSE parts[1] \o sep \o Join(Tail(parts), sep)

Digits == <<"0", "1", "2", "3", "4", "5", "6", "7", "8", "9">>

IsDigit(c) == \E d \in 1..10 : Digits[d] = c

DigitVal(c) == (CHOOSE d \in 1..10 : Digits[d] = c) - 1

RECURSIVE DigitsVal(_)
DigitsVal(s) ==
    IF s = <<>> THEN 0
    ELSE 10 * DigitsVal(AllButLast(s)) + DigitVal(s[Len(s)])

\* the strings int() accepts: an optional sign and at least one digit
IsIntLiteral(s) ==
    LET body == IF s # <<>> /\ s[1] \in {"+", "-"} THEN TailStr(s) ELSE s
    IN  body # <<>> /\ \A i \in 1..Len(body) : IsDigit(body[i])

\* int(s) for a string int() accepts
IntOfStr(s) ==
    IF s[1] = "-" THEN 0 - DigitsVal(TailStr(s))
    ELSE IF s[1] = "+" THEN DigitsVal(TailStr(s))
    ELSE DigitsVal(s)

\* f"{n}" for an integer n
RECURSIVE NatToStr(_)
NatToStr(n) ==
    IF n < 10 THEN <<Digits[n+1]>>
    ELSE NatToStr(n \div 10) \o <<Digits[(n % 10) + 1]>>

IntToStr(n) == IF n < 0 THEN <<"-">> \o NatToStr(0 - n) ELSE NatToStr(n)

\* ord(c) for the characters unit strings are made of
Ord(c) ==
    CASE c = "(" -> 40 [] c = ")" -> 41 [] c = "+" -> 43 [] c = "-" -> 45
      [] c = "." -> 46 [] c = "/" -> 47 [] c = "^" -> 94
      [] IsDigit(c) -> 48 + DigitVal(c)
      [] c = "A" -> 65 [] c = "H" -> 72 [] c = "N" -> 78 [] c = "V" -> 86
      [] c = "a" -> 97
      [] c = "b" -> 98 [] c = "c" -> 99 [] c = "d" -> 100 [] c = "e" -> 101
      [] c = "g" -> 103 [] c = "k" -> 107 [] c = "m" -> 109 [] c = "s" -> 115
      [] c = "x" -> 120 [] c = "z" -> 122

\* s < t for Python strings (lexicographic on code points)
RECURSIVE StrLess(_, _)
StrLess(s, t) ==
    IF t = <<>> THEN FALSE
    ELSE IF s = <<>> THEN TRUE
    ELSE IF Ord(s[1]) # Ord(t[1]) THEN Ord(s[1]) < Ord(t[1])
    ELSE StrLess(Tail(s), Tail(t))

\* sorted(list of strings), by insertion
RECURSIVE InsertSorted(_, _)
InsertSorted(x, l) ==
    IF l = <<>> THEN <<x>>
    ELSE IF StrLess(x, l[1]) THEN <<x>> \o l
    ELSE <<l[1]>> \o InsertSorted(x, Tail(l))

RECURSIVE Sorted(_)
Sorted(l) == IF l = <<>> THEN <<>> ELSE InsertSorted(l[1], Sorted(Tail(l)))

\* a list holding the members of a finite set, in some order
RECURSIVE SetToSeq(_)
SetToSeq(S) ==
    IF S = {} THEN <<>>
    ELSE LET x == CHOOSE y \in S : TRUE IN <<x>> \o SetToSeq(S \ {x})

(***************************************************************************)
(* Dictionaries                                                            *)
(***************************************************************************)

EmptyDict == <<>>

\* d.get(k, 0)
DictGet(d, k) == IF k \in DOMAIN d THEN d[k] ELSE 0

\* d[k] = d.get(k, 0) + x
DictAdd(d, k, x) ==
    [kk \in (DOMAIN d) \cup {k} |-> IF kk = k THEN DictGet(d, k) + x ELSE d[kk]]

\* d.pop(k, None)
DictPop(d, k) == [kk \in (DOMAIN d) \ {k} |-> d[kk]]

\* {k: v for k, v in d.items() if v}
DictNonZero(d) == [kk \in {k \in DOMAIN d : d[k] # 0} |-> d[kk]]

(***************************************************************************)
(* pyee.types.units.Units                                                  *)
(***************************************************************************)

DefaultContext == "Electrical"

\* Units(s, context)
Units(s, context) == [s |-> s, context |-> context]

\* Units.create_unitless()
create_unitless == Units(EmptyDict, DefaultContext)

\* the result of a call: exc names the exception raised ("" for none)
Returned(v) == [exc |-> "", val |-> v]

Raised(e) == [exc |-> e, val |-> <<>>]

\* re.sub(r"(?:\()(\.+)|(\.+)(?:\))", group_replace, ustring): a run of dots
\* that directly follows "(" or directly precedes ")" is removed
DotRunStart(s, i) ==
    CHOOSE k \in 1..i :
        (\A j \in k..i : s[j] = ".") /\ (k = 1 \/ s[k-1] # ".")

DotRunEnd(s, i) ==
    CHOOSE k \in i..Len(s) :
        (\A j \in i..k : s[j] = ".") /\ (k = Len(s) \/ s[k+1] # ".")

DotRemoved(s, i) ==
    /\ s[i] = "."
    /\ \/ DotRunStart(s, i) > 1 /\ s[DotRunStart(s, i) - 1] = "("
       \/ DotRunEnd(s, i) < Len(s) /\ s[DotRunEnd(s, i) + 1] = ")"

RECURSIVE CleanFrom(_, _)
CleanFrom(s, i) ==
    IF i > Len(s) THEN <<>>
    ELSE (IF DotRemoved(s, i) THEN <<>> ELSE <<s[i]>>) \o CleanFrom(s, i + 1)

ustring_clean(s) == CleanFrom(s, 1)

\* ndparts3: every "/" part split on ".", every piece of that split on "^"
ElementsOf(nd) ==
    LET pieces == Split(nd, ".")
    IN  [i \in 1..Len(pieces) |-> Split(pieces[i], "^")]

ndparts3(s) ==
    LET nds == Split(ustring_clean(s), "/")
    IN  [i \in 1..Len(nds) |-> ElementsOf(nds[i])]

\* the loop state of from_string: sdict, group_sets, sign_normal, and the
\* exception that ended the loop, if any
ParseInit == [sdict |-> EmptyDict, gs |-> <<-1>>, sn |-> 1, exc |-> ""]

ParseFail(st, e) == [st EXCEPT !.exc = e]

\* int(x) * sign added to sdict[key], or the ValueError of int() re-raised
\* as UnitsConstructionException (units.py:192)
AccumStr(st, key, x, sign) ==
    IF IsIntLiteral(x)
    THEN [st EXCEPT !.sdict = DictAdd(@, key, IntOfStr(x) * sign)]
    ELSE ParseFail(st, "UnitsConstructionException")

\* one pass of the inner loop of from_string, for one element (the list
\* ep.split("^")) of a "/" part
ParseElement(st, element) ==
    LET base   == element[1]
        hasExp == Len(element) = 2          \* base, exp = element succeeds
        exp    == element[Len(element)]     \* the exp string when hasExp
        last   == element[Len(element)]     \* element[-1]
        gs     == st.gs
        top    == gs[Len(gs)]
        normal == top + st.sn # 0
        this_exp == IF normal THEN st.sn ELSE top
        gsUsed == IF normal THEN gs ELSE [gs EXCEPT ![Len(gs)] = st.sn]
    IN
    IF base = <<>> THEN st
    ELSE IF last = <<>> THEN ParseFail(st, "IndexError")
    ELSE IF base[1] = "(" THEN
        IF last[Len(last)] = ")" THEN
            \* a group of one element: "(x)" or "(x^n)"
            IF gs = <<>> THEN ParseFail(st, "IndexError")
            ELSE LET st2 == [st EXCEPT !.gs = gsUsed] IN
                 IF hasExp
                 THEN AccumStr(st2, TailStr(base), AllButLast(exp), this_exp)
                 ELSE [st2 EXCEPT
                         !.sdict = DictAdd(@, AllButLast(TailStr(base)), this_exp)]
        ELSE
            \* the first element of a group
            IF gs = <<>> THEN ParseFail(st, "IndexError")
            ELSE LET st2 == [st EXCEPT !.sn = top, !.gs = Append(gs, top)] IN
                 IF hasExp
                 THEN AccumStr(st2, TailStr(base), exp, top)
                 ELSE [st2 EXCEPT !.sdict = DictAdd(@, TailStr(base), top)]
    ELSE IF last[Len(last)] = ")" THEN
        \* the last element of a group
        IF gs = <<>> THEN ParseFail(st, "IndexError")
        ELSE LET st2 == [st EXCEPT !.sn = 1, !.gs = AllButLast(gs)] IN
             IF hasExp
             THEN AccumStr(st2, base, AllButLast(exp), top)
             ELSE [st2 EXCEPT !.sdict = DictAdd(@, AllButLast(base), top)]
    ELSE
        \* an element inside the current group
        IF gs = <<>> THEN ParseFail(st, "IndexError")
        ELSE LET st2 == [st EXCEPT !.gs = gsUsed] IN
             IF hasExp
             THEN AccumStr(st2, base, exp, this_exp)
             ELSE [st2 EXCEPT !.sdict = DictAdd(@, base, this_exp)]

RECURSIVE ParseElements(_, _)
ParseElements(st, elements) ==
    IF elements = <<>> \/ st.exc # "" THEN st
    ELSE ParseElements(ParseElement(st, elements[1]), Tail(elements))

\* one pass of the outer loop: group_sets[-1] = -1*group_sets[-1], then the
\* elements of the part
ParseNumDen(st, numden) ==
    IF st.gs = <<>> THEN ParseFail(st, "IndexError")
    ELSE ParseElements([st EXCEPT !.gs[Len(st.gs)] = 0 - @], numden)

RECURSIVE ParseNumDens(_, _)
ParseNumDens(st, parts) ==
    IF parts = <<>> \/ st.exc # "" THEN st
    ELSE ParseNumDens(ParseNumDen(st, parts[1]), Tail(parts))

\* Units.from_string(ustring, context=context)
from_string_ctx(s, context) ==
    LET st == ParseNumDens(ParseInit, ndparts3(s))
    IN  IF st.exc # "" THEN Raised(st.exc)
        ELSE Returned(Units(DictNonZero(DictPop(DictPop(st.sdict, <<"1">>), <<>>)),
                            context))

\* Units.from_string(ustring)
from_string(s) == from_string_ctx(s, DefaultContext)

\* one entry of p1 or p2 in __repr__
ReprTerm(sym, e) == IF e > 1 THEN sym \o <<"^">> \o IntToStr(e) ELSE sym

\* __repr__ writing the denominator without its parentheses
Units__repr__bare(u) ==
    LET pos == SetToSeq({k \in DOMAIN u.s : u.s[k] > 0})
        neg == SetToSeq({k \in DOMAIN u.s : u.s[k] < 0})
        p1  == Sorted([i \in 1..Len(pos) |-> ReprTerm(pos[i], u.s[pos[i]])])
        p2  == Sorted([i \in 1..Len(neg) |-> ReprTerm(neg[i], 0 - u.s[neg[i]])])
    IN  (IF Len(p1) # 0 THEN Join(p1, <<".">>) ELSE <<"1">>)
        \o (IF Len(p2) # 0 THEN <<"/">> \o Join(p2, <<".">>) ELSE <<>>)

\* Units.__repr__
Units__repr__(u) ==
    LET pos == SetToSeq({k \in DOMAIN u.s : u.s[k] > 0})
        neg == SetToSeq({k \in DOMAIN u.s : u.s[k] < 0})
        p1  == Sorted([i \in 1..Len(pos) |-> ReprTerm(pos[i], u.s[pos[i]])])
        p2  == Sorted([i \in 1..Len(neg) |-> ReprTerm(neg[i], 0 - u.s[neg[i]])])
    IN  (IF Len(p1) # 0 THEN Join(p1, <<".">>) ELSE <<"1">>)
        \o (IF Len(p2) # 0 THEN <<"/", "(">> \o Join(p2, <<".">>) \o <<")">>
            ELSE <<>>)

\* the key set and the pointwise combination used by __mul__, __truediv__
\* and __rtruediv__: no entry is removed
UnionKeys(s1, s2) == (DOMAIN s1) \cup (DOMAIN s2)

\* Units.__mul__(self, other), other a Units: the result has the default
\* context
Units__mul__(self, other) ==
    Units([k \in UnionKeys(self.s, other.s) |->
              DictGet(self.s, k) + DictGet(other.s, k)], DefaultContext)

\* Units.__truediv__(self, other), other a Units
Units__truediv__(self, other) ==
    Units([k \in UnionKeys(self.s, other.s) |->
              DictGet(self.s, k) - DictGet(other.s, k)], DefaultContext)

\* Units.__rtruediv__(self, 1), that is 1/self
Units__rtruediv__one(self) ==
    Units([k \in DOMAIN self.s |-> 0 - self.s[k]], DefaultContext)

\* Units.__eq__(self, other), other a Units
Units__eq__(self, other) == self.s = other.s

\* Units.__ne__
Units__ne__(self, other) == ~Units__eq__(self, other)

\* Units.unitless
unitless(self) == Cardinality(DOMAIN self.s) = 0

\* the "base" strings of the derived units of the Electrical context, as
\* load_unit_context reads them from the context's data file
ContextBase ==
    (<<"H", "z">> :> <<"1", "/", "s">>)
    @@ (<<"N">> :> <<"k", "g", ".", "m", "/", "s", "^", "2">>)

\* load_unit_context: cdat[symbol]["u"] = Units.from_string(base)
load_unit_context ==
    [sym \in DOMAIN ContextBase |-> from_string(ContextBase[sym]).val]

\* the loop of as_base over self.s.items(): a derived symbol adds its base
\* exponents times e, any other symbol adds e to itself
RECURSIVE AddScaled(_, _, _, _)
AddScaled(sbase, keys, bs, e) ==
    IF keys = <<>> THEN sbase
    ELSE AddScaled(DictAdd(sbase, keys[1], bs[keys[1]] * e), Tail(keys), bs, e)

RECURSIVE AsBaseLoop(_, _, _)
AsBaseLoop(sbase, keys, self) ==
    IF keys = <<>> THEN sbase
    ELSE LET k == keys[1]
             e == self.s[k]
         IN  AsBaseLoop(
                 IF k \in DOMAIN load_unit_context
                 THEN AddScaled(sbase, SetToSeq(DOMAIN load_unit_context[k].s),
                                load_unit_context[k].s, e)
                 ELSE DictAdd(sbase, k, e),
                 Tail(keys), self)

\* Units.as_base(self)
as_base(self) ==
    Units(AsBaseLoop(EmptyDict, SetToSeq(DOMAIN self.s), self), self.context)

\* Python's None
None == "None"

\* a str operand
Str(s) == [str |-> s]

\* isinstance(other, Units)
IsUnits(other) == "s" \in DOMAIN other /\ "context" \in DOMAIN other

\* Units.from_any(other) for a Units instance (returned as it is), a str
\* (the registered overload calls from_string) and a bare number:
\* from_string(number) raises TypeError in re.sub, which is caught, then
\* len(number) raises TypeError, which is re-raised as TypeError
from_any(other) ==
    IF IsUnits(other) THEN Returned(other)
    ELSE IF "str" \in DOMAIN other THEN from_string(other.str)
    ELSE Raised("TypeError")

\* Units.__eq__(self, other) for any operand: other.s when it exists, else
\* the mapping of Units.from_any(other), whose exception propagates
Units__eq__any(self, other) ==
    IF "s" \in DOMAIN other THEN Returned(self.s = other.s)
    ELSE LET u2r == from_any(other)
         IN  IF u2r.exc # "" THEN u2r ELSE Returned(self.s = u2r.val.s)

\* Units.__sub__(self, other)
Units__sub__(self, other) ==
    LET eq == Units__eq__any(self, other)
    IN  IF eq.exc # "" THEN eq
        ELSE IF eq.val THEN Returned(None)
        ELSE IF Cardinality(DOMAIN self.s) = 0 /\ ~IsUnits(other)
             THEN Returned(None)
        ELSE Raised("UnitsMissmatchException")

\* Units.__rsub__(self, other)
Units__rsub__(self, other) ==
    LET eq == Units__eq__any(self, other)
    IN  IF eq.exc # "" THEN eq
        ELSE IF eq.val THEN Returned(None)
        ELSE IF Cardinality(DOMAIN self.s) = 0 /\ ~IsUnits(other)
             THEN Returned(None)
        ELSE Raised("UnitsMissmatchException")

\* Units.__add__(self, other)
Units__add__(self, other) ==
    LET eq == Units__eq__any(self, other)
    IN  IF eq.exc # "" THEN eq
        ELSE IF eq.val THEN Returned(None)
        ELSE IF Cardinality(DOMAIN self.s) = 0 /\ ~IsUnits(other)
             THEN Returned(None)
        ELSE Raised("UnitsMissmatchException")

\* Units.__radd__(self, other)
Units__radd__(self, other) ==
    LET eq == Units__eq__any(self, other)
    IN  IF eq.exc # "" THEN eq
        ELSE IF eq.val THEN Returned(None)
        ELSE IF Cardinality(DOMAIN self.s) = 0 /\ ~IsUnits(other)
             THEN Returned(None)
        ELSE Raised("UnitsMissmatchException")

\* the contexts whose data file SI_units_<context>.json exists
ContextFiles == {"Electrical"}

\* the "_subs" table of the Electrical context: compound string to preferred
\* string
ContextSubs == (<<"V", "/", "A">> :> <<"O", "h", "m">>)

\* "if context is not None: self.context = context" of as_base and simplify:
\* the receiver after the assignment
SetContext(self, context) ==
    IF context # None THEN [self EXCEPT !.context = context] ELSE self

\* the outcome of a method that may assign to its receiver: the receiver
\* after the call, what the call returned or raised, and whether the
\* returned object is the receiver itself
Outcome(self, out, same) == [self |-> self, out |-> out, same |-> same]

\* Units.as_base(self, context): a context without a data file makes
\* load_unit_context raise FileNotFoundError after the assignment
Units_as_base(self, context) ==
    LET me == SetContext(self, context)
    IN  IF me.context \notin ContextFiles
        THEN Outcome(me, Raised("FileNotFoundError"), FALSE)
        ELSE Outcome(me, Returned(as_base(me)), FALSE)

\* the first loop of simplify: the names of the context whose base units
\* equal self
SimplifyNames(self) ==
    {name \in DOMAIN load_unit_context :
        Units__eq__(load_unit_context[name], self)}

\* the second loop of simplify: the "_subs" keys whose units equal self
SimplifySubs(self) ==
    {key \in DOMAIN ContextSubs :
        Units__eq__(self, from_string_ctx(key, self.context).val)}

\* Units.simplify(self, context): the named unit, else a copy of the
\* substitution, else self
Units_simplify(self, context) ==
    LET me == SetContext(self, context)
    IN  IF me.context \notin ContextFiles
        THEN Outcome(me, Raised("FileNotFoundError"), FALSE)
        ELSE IF SimplifyNames(me) # {}
        THEN Outcome(me, from_string_ctx(CHOOSE name \in SimplifyNames(me) : TRUE,
                                         me.context), FALSE)
        ELSE IF SimplifySubs(me) # {}
        THEN Outcome(me, from_string_ctx(
                 ContextSubs[CHOOSE key \in SimplifySubs(me) : TRUE],
                 me.context), FALSE)
        ELSE Outcome(me, Returned(me), TRUE)

(***************************************************************************)
(* Numbers: a Python float is the exact rational <<numerator, denominator>> *)
(* in lowest terms with a positive denominator                             *)
(***************************************************************************)

Abs(n) == IF n < 0 THEN 0 - n ELSE n

RECURSIVE GCD(_, _)
GCD(a, b) == IF b = 0 THEN a ELSE GCD(b, a % b)

Rat(n, d) ==
    LET g  == GCD(Abs(n), Abs(d))
        sg == IF d < 0 THEN -1 ELSE 1
    IN  <<sg * (n \div g), sg * (d \div g)>>

RatAdd(x, y) == Rat(x[1] * y[2] + y[1] * x[2], x[2] * y[2])

RatSub(x, y) == Rat(x[1] * y[2] - y[1] * x[2], x[2] * y[2])

RatMul(x, y) == Rat(x[1] * y[1], x[2] * y[2])

RatDiv(x, y) == Rat(x[1] * y[2], x[2] * y[1])

RatLess(x, y) == x[1] * y[2] < y[1] * x[2]

RatLeq(x, y) == x[1] * y[2] <= y[1] * x[2]

RatAbs(x) == <<Abs(x[1]), x[2]>>

\* sorted(set of numbers)
RECURSIVE SortedRats(_)
SortedRats(S) ==
    IF S = {} THEN <<>>
    ELSE LET lo == CHOOSE x \in S : \A y \in S : RatLeq(x, y)
         IN  <<lo>> \o SortedRats(S \ {lo})

(***************************************************************************)
(* pyee.types.prefixes.Prefix                                              *)
(***************************************************************************)

\* the content of the SI_prefixes data file: symbol -> name and factor
SI_prefixes ==
    ("m" :> [name |-> "milli", factor |-> <<1, 1000>>])
    @@ ("" :> [name |-> "", factor |-> <<1, 1>>])
    @@ ("k" :> [name |-> "kilo", factor |-> <<1000, 1>>])
    @@ ("M" :> [name |-> "mega", factor |-> <<1000000, 1>>])

NoFile == "None"

\* the class attributes before the first use of Prefix
PrefixUnloaded ==
    [DATA_FILE |-> NoFile, data_by_symbol |-> <<>>, data_by_value |-> <<>>,
     data_value_scale |-> <<>>, data_by_name |-> <<>>]

\* {d["factor"]: {"symbol": s, "name": d["name"]} for s, d in ...items()}
data_by_value_of(by_symbol) ==
    [f \in {by_symbol[sym].factor : sym \in DOMAIN by_symbol} |->
        LET sym == CHOOSE y \in DOMAIN by_symbol : by_symbol[y].factor = f
        IN  [symbol |-> sym, name |-> by_symbol[sym].name]]

\* {d["name"]: {"symbol": s, "factor": d["factor"]} for s, d in ...items()}
data_by_name_of(by_symbol) ==
    [n \in {by_symbol[sym].name : sym \in DOMAIN by_symbol} |->
        LET sym == CHOOSE y \in DOMAIN by_symbol : by_symbol[y].name = n
        IN  [symbol |-> sym, factor |-> by_symbol[sym].factor]]

\* Prefix.reload_data()
reload_data ==
    [DATA_FILE |-> "SI_prefixes",
     data_by_symbol |-> SI_prefixes,
     data_by_value |-> data_by_value_of(SI_prefixes),
     data_value_scale |-> SortedRats(DOMAIN data_by_value_of(SI_prefixes)),
     data_by_name |-> data_by_name_of(SI_prefixes)]

\* if cls._DATA_FILE is None: cls.reload_data()
EnsureLoaded(cls) == IF cls.DATA_FILE = NoFile THEN reload_data ELSE cls

\* Prefix(symbol, factor, name)
Prefix(symbol, factor, name) == [s |-> symbol, f |-> factor, n |-> name]

\* diffs[i] with a strict comparison, (pnum - v) > 0
DiffStrict(pnum, v) == IF RatSub(pnum, v)[1] > 0 THEN 1 ELSE 0

\* diffs[i] of from_number: 1*((pnum - v) >= 0)
Diff(pnum, v) == IF RatSub(pnum, v)[1] >= 0 THEN 1 ELSE 0

SetMax(S) == CHOOSE x \in S : \A y \in S : y <= x

\* Prefix.from_number(pnum) on loaded tables; np.max of the empty index
\* array raises ValueError
from_number(cls, pnum) ==
    LET scale   == cls.data_value_scale
        nonzero == {i \in 0..(Len(scale) - 1) : Diff(pnum, scale[i + 1]) # 0}
    IN  IF nonzero = {} THEN Raised("ValueError")
        ELSE LET idx    == IF SetMax(nonzero) > 0 THEN SetMax(nonzero) ELSE 0
                 factor == scale[idx + 1]
             IN  Returned(Prefix(cls.data_by_value[factor].symbol, factor,
                                 cls.data_by_value[factor].name))

(***************************************************************************)
(* pyee.types.converters and pyee.types.physicalquantity.PhysicalQuantity  *)
(***************************************************************************)

\* vp_from_number(number): the pair (v, p), or the exception of from_number
vp_from_number(cls, number) ==
    LET p == from_number(cls, number)
    IN  IF p.exc # "" THEN p
        ELSE Returned([v |-> RatDiv(number, p.val.f), p |-> p.val])

\* the module flag of physicalquantity.py
ERROR_ON_UNITLESS_OPERATORS == FALSE

\* PhysicalQuantity(value, prefix, units)
PhysicalQuantity(value, prefix, units) == [v |-> value, p |-> prefix, u |-> units]

\* a bare number used as an operand
Scalar(x) == [num |-> x]

\* None where a quantity is expected
NoPQ == [none |-> TRUE]

\* isinstance(other, PhysicalQuantity): a PhysicalQuantity has v, p and u, a
\* DependantPhysicalQuantity has u but no v
IsPQ(other) == "u" \in DOMAIN other /\ "v" \in DOMAIN other

\* PhysicalQuantity.value
PQ_value(self) == RatMul(self.v, self.p.f)

\* the PhysicalQuantity built from the pair vp_from_number returned
WithUnits(vp, units) ==
    IF vp.exc # "" THEN vp
    ELSE Returned(PhysicalQuantity(vp.val.v, vp.val.p, units))

\* PhysicalQuantity.from_value(value, units), units a unit string
from_value(cls, value, units) ==
    LET vp == vp_from_number(cls, value)
        uu == from_string(units)
    IN  IF vp.exc # "" THEN vp
        ELSE IF uu.exc # "" THEN uu
        ELSE WithUnits(vp, uu.val)

\* __sub__ without the comparison of the units
PQ__sub__unchecked(cls, self, other) ==
    IF IsPQ(other) THEN
        WithUnits(vp_from_number(cls,
            RatSub(RatMul(self.v, self.p.f), RatMul(other.v, other.p.f))),
            self.u)
    ELSE WithUnits(vp_from_number(cls,
             RatSub(RatMul(self.v, self.p.f), other.num)), self.u)

\* PhysicalQuantity.__sub__(self, other)
PQ__sub__(cls, self, other) ==
    IF IsPQ(other) THEN
        IF Units__ne__(self.u, other.u) THEN Raised("UnitsMissmatchException")
        ELSE WithUnits(vp_from_number(cls,
                 RatSub(RatMul(self.v, self.p.f), RatMul(other.v, other.p.f))),
                 self.u)
    ELSE IF ERROR_ON_UNITLESS_OPERATORS THEN Raised("TypeError")
    ELSE WithUnits(vp_from_number(cls,
             RatSub(RatMul(self.v, self.p.f), other.num)), self.u)

\* PhysicalQuantity.__rsub__(self, other)
PQ__rsub__(cls, self, other) ==
    IF IsPQ(other) THEN
        IF Units__ne__(self.u, other.u) THEN Raised("UnitsMissmatchException")
        ELSE WithUnits(vp_from_number(cls,
                 RatSub(RatMul(other.v, other.p.f), RatMul(self.v, self.p.f))),
                 self.u)
    ELSE IF ERROR_ON_UNITLESS_OPERATORS THEN Raised("TypeError")
    ELSE WithUnits(vp_from_number(cls,
             RatSub(other.num, RatMul(self.v, self.p.f))), self.u)

\* PhysicalQuantity.__add__(self, other)
PQ__add__(cls, self, other) ==
    IF IsPQ(other) THEN
        IF Units__ne__(self.u, other.u) THEN Raised("UnitsMissmatchException")
        ELSE WithUnits(vp_from_number(cls,
                 RatAdd(RatMul(self.v, self.p.f), RatMul(other.v, other.p.f))),
                 self.u)
    ELSE IF ERROR_ON_UNITLESS_OPERATORS THEN Raised("TypeError")
    ELSE WithUnits(vp_from_number(cls,
             RatAdd(RatMul(self.v, self.p.f), other.num)), self.u)

\* PhysicalQuantity.__mul__(self, other); __rmul__ returns self.__mul__(other)
PQ__mul__(cls, self, other) ==
    IF IsPQ(other) THEN
        WithUnits(vp_from_number(cls,
            RatMul(RatMul(self.v, self.p.f), RatMul(other.v, other.p.f))),
            Units__mul__(self.u, other.u))
    ELSE IF ERROR_ON_UNITLESS_OPERATORS THEN Raised("TypeError")
    ELSE WithUnits(vp_from_number(cls,
             RatMul(RatMul(self.v, self.p.f), other.num)), self.u)

\* PhysicalQuantity.__truediv__(self, other); a float division by zero
\* raises ZeroDivisionError
PQ__truediv__(cls, self, other) ==
    IF IsPQ(other) THEN
        IF RatMul(other.v, other.p.f)[1] = 0 THEN Raised("ZeroDivisionError")
        ELSE WithUnits(vp_from_number(cls,
                 RatDiv(RatMul(self.v, self.p.f), RatMul(other.v, other.p.f))),
                 Units__truediv__(self.u, other.u))
    ELSE IF ERROR_ON_UNITLESS_OPERATORS THEN Raised("TypeError")
    ELSE IF other.num[1] = 0 THEN Raised("ZeroDivisionError")
    ELSE WithUnits(vp_from_number(cls,
             RatDiv(RatMul(self.v, self.p.f), other.num)), self.u)

\* PhysicalQuantity.__rtruediv__(self, other), other a bare number
PQ__rtruediv__(cls, self, other) ==
    IF ERROR_ON_UNITLESS_OPERATORS THEN Raised("TypeError")
    ELSE IF RatMul(self.v, self.p.f)[1] = 0 THEN Raised("ZeroDivisionError")
    ELSE WithUnits(vp_from_number(cls,
             RatDiv(other.num, RatMul(self.v, self.p.f))),
             Units__rtruediv__one(self.u))

\* the setter of PhysicalQuantity.value: self.v, self.p = vp_from_number(val);
\* the pair is assigned only after vp_from_number returned
PQ_value_setter(cls, self, val) ==
    LET vp == vp_from_number(cls, val)
    IN  IF vp.exc # "" THEN vp
        ELSE Returned([self EXCEPT !.v = vp.val.v, !.p = vp.val.p])

\* BooleanConfigParameter.set(value) on the one instance of the class
BooleanConfigParameter_set(value) == value

\* the names that pyee/__init__.py binds to BooleanConfigParameter(False);
\* ConfigParameter.__new__ returns cls.instance for both
Toggles == {"ERROR_ON_UNITLESS_OPERATORS", "ERROR_ON_UNIT_MISSMATCH"}

\* pyee.<name>.get(): the parameter of the instance the name is bound to
Toggle_get(instance, name) == instance

(***************************************************************************)
(* pyee.math.polynomials: a coefficient array is a sequence of numbers,    *)
(* index i holding the coefficient of x^(i-1)                              *)
(***************************************************************************)

\* the array padded with zeros up to length n (np.pad)
Pad(c, n) == [i \in 1..n |-> IF i <= Len(c) THEN c[i] ELSE <<0, 1>>]

PadLen(c1, c2) == IF Len(c1) < Len(c2) THEN Len(c2) ELSE Len(c1)

\* polyadd(c1, c2)
polyadd(c1, c2) ==
    [i \in 1..PadLen(c1, c2) |->
        RatAdd(Pad(c1, PadLen(c1, c2))[i], Pad(c2, PadLen(c1, c2))[i])]

\* polysub(c1, c2)
polysub(c1, c2) ==
    [i \in 1..PadLen(c1, c2) |->
        RatSub(Pad(c1, PadLen(c1, c2))[i], Pad(c2, PadLen(c1, c2))[i])]

\* the sum of the numbers of a sequence
RECURSIVE RatSum(_)
RatSum(xs) == IF xs = <<>> THEN <<0, 1>> ELSE RatAdd(xs[1], RatSum(Tail(xs)))

\* fullmul of polymul: len(c1) + len(c2) entries, entry k the sum of the
\* products a * b with e1 + e2 = k
FullMul(c1, c2) ==
    [k \in 1..(Len(c1) + Len(c2)) |->
        RatSum([e1 \in 1..Len(c1) |->
            IF k + 1 - e1 \in 1..Len(c2)
            THEN RatMul(c1[e1], c2[k + 1 - e1]) ELSE <<0, 1>>])]

\* the indices of the nonzero entries (ndarray.nonzero, counted from 1)
NonZero(c) == {i \in 1..Len(c) : c[i][1] # 0}

\* polymul(c1, c2): fullmul cut after its last nonzero entry; np.max over
\* the empty index array of an all-zero product raises ValueError
polymul(c1, c2) ==
    LET sqmul == FullMul(c1, c2)
    IN  IF NonZero(sqmul) = {} THEN Raised("ValueError")
        ELSE Returned(SubSeq(sqmul, 1, SetMax(NonZero(sqmul))))

\* x to the power e
RECURSIVE RatPow(_, _)
RatPow(x, e) == IF e = 0 THEN <<1, 1>> ELSE RatMul(x, RatPow(x, e - 1))

\* polyeval(c, x) at one point x
polyeval(c, x) == RatSum([i \in 1..Len(c) |-> RatMul(c[i], RatPow(x, i - 1))])

\* ndarray * number
ArrayTimes(c, k) == [i \in 1..Len(c) |-> RatMul(c[i], k)]

(***************************************************************************)
(* pyee.types.physicalquantity.DependantPhysicalQuantity                   *)
(***************************************************************************)

\* an instance after __init__ with var0 None or a PhysicalQuantity: the
\* operators build their results with this class, whatever type(self) is
DependantPhysicalQuantity(num, den, units, var0) ==
    [type |-> "DependantPhysicalQuantity", num |-> num, den |-> den,
     u |-> units, var0 |-> var0]

\* isinstance(other, DependantPhysicalQuantity)
IsDPQ(other) == "den" \in DOMAIN other

\* DependantPhysicalQuantity(num=nn, den=nd, units=nu, **varargs) at the end
\* of an operator; nn and nd are the outcomes of the array computations
\* that run before it
NewDPQ(self, nn, nd, nu) ==
    IF nd.exc # "" THEN nd
    ELSE IF nn.exc # "" THEN nn
    ELSE Returned(DependantPhysicalQuantity(nn.val, nd.val, nu, self.var0))

\* other.v*other.p of a PhysicalQuantity operand
PQ_vp(other) == RatMul(other.v, other.p.f)

\* DependantPhysicalQuantity.__mul__(self, other); __rmul__ has the same body
DPQ__mul__(self, other) ==
    IF IsDPQ(other) THEN
        NewDPQ(self, polymul(self.num, other.num), polymul(self.den, other.den),
               Units__mul__(self.u, other.u))
    ELSE IF IsPQ(other) THEN
        NewDPQ(self, Returned(ArrayTimes(self.num, PQ_vp(other))),
               Returned(self.den), Units__mul__(self.u, other.u))
    ELSE IF ERROR_ON_UNITLESS_OPERATORS THEN Raised("TypeError")
    ELSE NewDPQ(self, Returned(ArrayTimes(self.num, other.num)),
                Returned(self.den), self.u)

\* the numerator of __sub__ / __add__ and their reflections over the common
\* denominator: comb is polysub or polyadd, swap exchanges its arguments
CrossCombine(self, other, sub, swap) ==
    LET num_a == IF IsDPQ(other) THEN polymul(self.num, other.den)
                 ELSE Returned(self.num)
        num_b == IF IsDPQ(other) THEN polymul(self.den, other.num)
                 ELSE IF IsPQ(other)
                      THEN Returned(ArrayTimes(self.den, PQ_vp(other)))
                 ELSE Returned(ArrayTimes(self.den, other.num))
        x     == IF swap THEN num_b ELSE num_a
        y     == IF swap THEN num_a ELSE num_b
    IN  IF num_a.exc # "" THEN num_a
        ELSE IF num_b.exc # "" THEN num_b
        ELSE IF sub THEN Returned(polysub(x.val, y.val))
        ELSE Returned(polyadd(x.val, y.val))

\* the shared body of __sub__, __rsub__, __add__ and __radd__
DPQ_addsub(self, other, sub, swap) ==
    IF IsDPQ(other) THEN
        IF Units__ne__(self.u, other.u) THEN Raised("UnitsMissmatchException")
        ELSE NewDPQ(self, CrossCombine(self, other, sub, swap),
                    polymul(self.den, other.den), self.u)
    ELSE IF IsPQ(other) THEN
        IF Units__ne__(self.u, other.u) THEN Raised("UnitsMissmatchException")
        ELSE NewDPQ(self, CrossCombine(self, other, sub, swap),
                    Returned(self.den), self.u)
    ELSE IF ERROR_ON_UNITLESS_OPERATORS THEN Raised("TypeError")
    ELSE NewDPQ(self, CrossCombine(self, other, sub, swap),
                Returned(self.den), self.u)

\* DependantPhysicalQuantity.__sub__(self, other)
DPQ__sub__(self, other) == DPQ_addsub(self, other, TRUE, FALSE)

\* DependantPhysicalQuantity.__rsub__(self, other)
DPQ__rsub__(self, other) == DPQ_addsub(self, other, TRUE, TRUE)

\* DependantPhysicalQuantity.__add__(self, other)
DPQ__add__(self, other) == DPQ_addsub(self, other, FALSE, FALSE)

\* DependantPhysicalQuantity.__radd__(self, other)
DPQ__radd__(self, other) == DPQ_addsub(self, other, FALSE, TRUE)

\* DependantPhysicalQuantity.__truediv__(self, other); the last branch reads
\* other.u of a bare number, which has no such attribute
DPQ__truediv__(self, other) ==
    IF IsDPQ(other) THEN
        NewDPQ(self, polymul(self.num, other.den), polymul(self.den, other.num),
               Units__truediv__(self.u, other.u))
    ELSE IF IsPQ(other) THEN
        NewDPQ(self, Returned(self.num),
               Returned(ArrayTimes(self.den, PQ_vp(other))),
               Units__truediv__(self.u, other.u))
    ELSE IF ERROR_ON_UNITLESS_OPERATORS THEN Raised("TypeError")
    ELSE Raised("AttributeError")

\* DependantPhysicalQuantity.__rtruediv__(self, other)
DPQ__rtruediv__(self, other) ==
    IF IsDPQ(other) THEN
        IF Units__ne__(self.u, other.u) THEN Raised("UnitsMissmatchException")
        ELSE NewDPQ(self, polymul(other.num, self.den),
                    polymul(other.den, self.num),
                    Units__truediv__(other.u, self.u))
    ELSE IF IsPQ(other) THEN
        IF Units__ne__(self.u, other.u) THEN Raised("UnitsMissmatchException")
        ELSE NewDPQ(self, Returned(ArrayTimes(self.den, PQ_vp(other))),
                    Returned(self.num), Units__truediv__(other.u, self.u))
    ELSE IF ERROR_ON_UNITLESS_OPERATORS THEN Raised("TypeError")
    ELSE NewDPQ(self, Returned(ArrayTimes(self.den, other.num)),
                Returned(self.num), Units__rtruediv__one(self.u))

\* float("inf"), the quotient numpy gives for a positive number over zero
Inf == <<1, 0>>

\* PhysicalQuantity.from_value(vn/vd, self.u.copy()) at the end of __call__:
\* numpy divides by zero without raising, giving inf, -inf or nan;
\* Prefix.from_number finds the largest factor below inf and none below
\* -inf or nan
EvaluateAt(cls, self, val) ==
    LET vn == polyeval(self.num, val)
        vd == polyeval(self.den, val)
    IN  IF vd[1] = 0 THEN
            IF vn[1] > 0
            THEN Returned(PhysicalQuantity(Inf,
                     from_number(cls, cls.data_value_scale[
                         Len(cls.data_value_scale)]).val, self.u))
            ELSE Raised("ValueError")
        ELSE WithUnits(vp_from_number(cls, RatDiv(vn, vd)), self.u)

\* DependantPhysicalQuantity.__call__(self, var); var is NoPQ when the
\* argument is omitted.  Every read of self.var0 goes through the property,
\* which raises ValueError while _var0 is None
DPQ__call__(cls, self, var) ==
    IF var = NoPQ THEN
        IF self.var0 = NoPQ THEN Raised("ValueError")
        ELSE IF ERROR_ON_UNITLESS_OPERATORS THEN Raised("TypeError")
        ELSE EvaluateAt(cls, self, PQ_vp(self.var0))
    ELSE IF IsPQ(var) THEN
        IF self.var0 = NoPQ THEN Raised("ValueError")
        ELSE IF Units__ne__(self.var0.u, var.u)
             THEN Raised("UnitsMissmatchException")
        ELSE IF ERROR_ON_UNITLESS_OPERATORS THEN Raised("TypeError")
        ELSE EvaluateAt(cls, self, PQ_vp(var))
    ELSE IF ERROR_ON_UNITLESS_OPERATORS THEN Raised("TypeError")
    ELSE EvaluateAt(cls, self, var.num)

\* the setter of DependantPhysicalQuantity.var0; the outcome holds the
\* receiver after the assignment
DPQ_var0_setter(cls, self, val) ==
    IF val = NoPQ THEN Returned([self EXCEPT !.var0 = NoPQ])
    ELSE IF IsPQ(val) THEN Returned([self EXCEPT !.var0 = val])
    ELSE LET pq == WithUnits(vp_from_number(cls, val.num),
                       IF self.var0 = NoPQ THEN create_unitless
                       ELSE self.var0.u)
         IN  IF pq.exc # "" THEN pq
             ELSE Returned([self EXCEPT !.var0 = pq.val])

(***************************************************************************)
(* pyee.types.impedance.Impedance and pyee.passives                        *)
(***************************************************************************)

\* Impedance.__init__ after super().__init__ parsed the units and built
\* var0 = PhysicalQuantity.from_value(value=frequency, units=frequency_units)
ImpedanceWith(num, den, units, var0) ==
    IF units.exc # "" THEN units
    ELSE IF var0.exc # "" THEN var0
    ELSE Returned([type |-> "Impedance", num |-> num, den |-> den,
                   u |-> units.val, var0 |-> var0.val])

\* Impedance(num, den) with the default frequency of 1000 "Hz"
Impedance(cls, num, den) ==
    ImpedanceWith(num, den, from_string(<<"V", "/", "A">>),
                  from_value(cls, <<1000, 1>>, <<"H", "z">>))

\* the default of the parameter frequency of Impedance.__init__
FrequencyDefault == Scalar(<<1000, 1>>)

\* 2000*np.pi, with np.pi cut to 3.141592
TwoThousandPi == <<6283184, 1000>>

\* an argument that the call does not pass
Omitted == [omitted |-> TRUE]

\* frequency if frequency is not None else 1000 (Hz), else 2000*np.pi (rad/s)
FrequencyOr(frequency, frequency_units) ==
    IF frequency # NoPQ THEN frequency.num
    ELSE IF frequency_units = <<"H", "z">> THEN <<1000, 1>>
    ELSE Rat(TwoThousandPi[1], TwoThousandPi[2])

\* Impedance.__init__(num, den, frequency, frequency_units); frequency is
\* NoPQ for None
Impedance__init__(cls, num, den, frequency, frequency_units) ==
    IF frequency_units \notin {<<"H", "z">>, <<"r", "a", "d", "/", "s">>}
    THEN Raised("ValueError")
    ELSE ImpedanceWith(num, den, from_string(<<"V", "/", "A">>),
             from_value(cls, FrequencyOr(frequency, frequency_units),
                        frequency_units))

\* Impedance(num, den, frequency_units=...), with or without frequency=...
Impedance_call(cls, num, den, frequency, frequency_units) ==
    Impedance__init__(cls, num, den,
        IF frequency = Omitted THEN FrequencyDefault ELSE frequency,
        frequency_units)

\* the class attribute _UNITS of the three passive component classes
PassiveUnits ==
    ("Resistor" :> <<"O", "h", "m">>) @@ ("Inductor" :> <<"H">>)
    @@ ("Capacitor" :> <<"F">>)

\* cls(v, p, cls._UNITS) at the end of PassiveComponent.from_value
PassiveComponent(type, vp, units) ==
    IF vp.exc # "" THEN vp
    ELSE Returned([type |-> type, v |-> vp.val.v, p |-> vp.val.p,
                   u |-> units.val])

\* PassiveComponent.from_value(value) on the class named type
PassiveComponent_from_value(cls, type, value) ==
    PassiveComponent(type, vp_from_number(cls, value),
                     from_string(PassiveUnits[type]))

\* hasattr(value, "Z")
HasZ(value) == "type" \in DOMAIN value /\ value.type \in DOMAIN PassiveUnits

\* the property Z of Resistor (num=[v*p], den=[1]), Inductor (num=[0, v*p],
\* den=[1]) and Capacitor (num=[1], den=[0, v*p])
Z(cls, self) ==
    Impedance(cls,
        IF self.type = "Resistor" THEN <<PQ_vp(self)>>
        ELSE IF self.type = "Inductor" THEN <<<<0, 1>>, PQ_vp(self)>>
        ELSE <<<<1, 1>>>>,
        IF self.type = "Capacitor" THEN <<<<0, 1>>, PQ_vp(self)>>
        ELSE <<<<1, 1>>>>)

\* the second attempt of an Impedance operator, on otherZ: it goes through
\* the same method again, which after another unit mismatch reads the Z of
\* an Impedance, an attribute it does not have
Impedance_again(again) ==
    IF again.exc = "UnitsMissmatchException" THEN Raised("AttributeError")
    ELSE again

\* return self + otherZ (otherZ + self in the reflected methods)
Impedance_retry(self, otherZ, sub, swap) ==
    IF otherZ.exc # "" THEN otherZ
    ELSE Impedance_again(
             DPQ_addsub(IF swap THEN otherZ.val ELSE self,
                        IF swap THEN self ELSE otherZ.val, sub, FALSE))

\* the except clause of the Impedance operators: first is the outcome of
\* the operator of the base class
Impedance_except(cls, self, value, sub, swap, first) ==
    IF first.exc # "UnitsMissmatchException" THEN first
    ELSE IF ~HasZ(value) THEN Raised("AttributeError")
    ELSE Impedance_retry(self, Z(cls, value), sub, swap)

\* Impedance.__add__ / __sub__ and, with swap, __radd__ / __rsub__ (sub
\* selects the subtraction)
Impedance_addsub(cls, self, value, sub, swap) ==
    Impedance_except(cls, self, value, sub, swap,
                     DPQ_addsub(self, value, sub, swap))

\* Impedance.__add__(self, value)
Impedance__add__(cls, self, value) ==
    Impedance_addsub(cls, self, value, FALSE, FALSE)

\* Impedance.__sub__(self, value)
Impedance__sub__(cls, self, value) ==
    Impedance_addsub(cls, self, value, TRUE, FALSE)

\* Impedance.__radd__(self, value)
Impedance__radd__(cls, self, value) ==
    Impedance_addsub(cls, self, value, FALSE, TRUE)

\* Impedance.__rsub__(self, value)
Impedance__rsub__(cls, self, value) ==
    Impedance_addsub(cls, self, value, TRUE, TRUE)

\* return thisZ + otherZ / thisZ - otherZ of the PassiveComponent operators
PassiveComponent_asZ(cls, thisZ, otherZ, sub) ==
    IF thisZ.exc # "" THEN thisZ
    ELSE IF otherZ.exc # "" THEN otherZ
    ELSE Impedance_addsub(cls, thisZ.val, otherZ.val, sub, FALSE)

\* an except clause that raises the exception again whatever the flag
PassiveComponent_reraise(cls, ezt, self, value, sub, first) == first

\* the except clause of the PassiveComponent operators under the module
\* flag ezt (ERROR_ON_Z_TRANSFORM): first is the outcome of the operator of
\* PhysicalQuantity
PassiveComponent_except(cls, ezt, self, value, sub, first) ==
    IF first.exc # "UnitsMissmatchException" THEN first
    ELSE IF ezt THEN first
    ELSE IF ~HasZ(value) THEN Raised("AttributeError")
    ELSE PassiveComponent_asZ(cls, Z(cls, self), Z(cls, value), sub)

\* PassiveComponent.__add__ / __sub__ (sub selects the subtraction)
PassiveComponent_addsub(cls, ezt, self, value, sub) ==
    PassiveComponent_except(cls, ezt, self, value, sub,
        IF sub THEN PQ__sub__(cls, self, value)
        ELSE PQ__add__(cls, self, value))

\* PassiveComponent.__add__(self, value)
PassiveComponent__add__(cls, ezt, self, value) ==
    PassiveComponent_addsub(cls, ezt, self, value, FALSE)

\* PassiveComponent.__sub__(self, value)
PassiveComponent__sub__(cls, ezt, self, value) ==
    PassiveComponent_addsub(cls, ezt, self, value, TRUE)

\* a + b / a - b with a DependantPhysicalQuantity or an Impedance on the
\* left, and k + b / k - b with a bare number on the left.  An Impedance
\* operand takes the call through its own method: on the left always, on
\* the right when reflected, which Python does for a bare number on the left
\* and, before trying the left operand, for a right operand whose class is
\* a subclass of the left one's that overrides the reflected method
DPQ_binary_addsub(cls, a, b, sub) ==
    IF IsDPQ(a) /\ a.type = "Impedance"
    THEN Impedance_addsub(cls, a, b, sub, FALSE)
    ELSE IF IsDPQ(b) /\ b.type = "Impedance"
    THEN Impedance_addsub(cls, b, a, sub, TRUE)
    ELSE IF IsDPQ(a) THEN DPQ_addsub(a, b, sub, FALSE)
    ELSE DPQ_addsub(b, a, sub, TRUE)

\* set_error_on_z_transform(val)
set_error_on_z_transform(val) == val

\* the base classes of the exceptions of pyee.exceptions
ExceptionBase(e) ==
    CASE e = "UnitsMissmatchException" -> "TypeError"
      [] e = "UnitsConversionException" -> "TypeError"
      [] e = "UnitsConstructionException" -> "RuntimeError"
      [] OTHER -> "Exception"

\* the dictionary of __or__, from str(nv.u) to the class whose from_value
\* rebuilds the result
OrClasses ==
    (<<"O", "h", "m">> :> "Resistor") @@ (<<"F">> :> "Capacitor")
    @@ (<<"L">> :> "Inductor")

\* nv = self * other / (self + other): prod and sum are the outcomes of the
\* product and of the sum; a sum that is a DependantPhysicalQuantity sends
\* the division into Prefix.from_number with a quantity that cannot be
\* compared with 0
PassiveComponent_nv(cls, prod, sum) ==
    IF prod.exc # "" THEN prod
    ELSE IF sum.exc # "" THEN sum
    ELSE IF IsDPQ(sum.val) THEN Raised("TypeError")
    ELSE PQ__truediv__(cls, prod.val, sum.val)

\* {...}.get(str(nv.u), lambda o: o)(nv)
PassiveComponent_remap(cls, nv) ==
    IF nv.exc # "" THEN nv
    ELSE IF Units__repr__(nv.val.u) \in DOMAIN OrClasses
    THEN PassiveComponent_from_value(cls, OrClasses[Units__repr__(nv.val.u)],
                                     PQ_vp(nv.val))
    ELSE nv

\* except (TypeError, AttributeError)
OrCaught(e) ==
    e \in {"TypeError", "AttributeError"} \/ ExceptionBase(e) = "TypeError"

\* prod / sum of two dependant quantities
OrQuotient(prod, sum) ==
    IF prod.exc # "" THEN prod
    ELSE IF sum.exc # "" THEN sum
    ELSE DPQ__truediv__(prod.val, sum.val)

\* return (sZ * oZ / (sZ + oZ))
PassiveComponent_orZ(cls, sZ, oZ) ==
    IF sZ.exc # "" THEN sZ
    ELSE IF oZ.exc # "" THEN oZ
    ELSE OrQuotient(DPQ__mul__(sZ.val, oZ.val),
                    Impedance__add__(cls, sZ.val, oZ.val))

\* the except clause of __or__: first is the outcome of the try block
PassiveComponent_or_except(cls, self, other, first) ==
    IF first.exc = "" \/ ~OrCaught(first.exc) THEN first
    ELSE IF ~HasZ(other) THEN Raised("AttributeError")
    ELSE PassiveComponent_orZ(cls, Z(cls, self), Z(cls, other))

\* PassiveComponent.__or__(self, other) under the module flag ezt
PassiveComponent__or__(cls, ezt, self, other) ==
    PassiveComponent_or_except(cls, self, other,
        PassiveComponent_remap(cls,
            PassiveComponent_nv(cls, PQ__mul__(cls, self, other),
                PassiveComponent__add__(cls, ezt, self, other))))

(***************************************************************************)
(* Calls of Units.from_string on assembled and on arbitrary strings        *)
(***************************************************************************)

MaxSegs == 2        \* "/" segments in an assembled unit string

MaxGroup == 2       \* tokens in a parenthesized group

MaxRawLen == 5      \* length of an arbitrary unit string

ChainSyms == {<<"a">>, <<"b">>, <<"c">>}

RawAlphabet == {"m", "(", ")", "^", ".", "/", "2"}

\* a "/" segment: one bare token, or a parenthesized dot-joined group
Segments ==
    {[paren |-> FALSE, toks |-> <<x>>] : x \in ChainSyms}
    \cup {[paren |-> TRUE, toks |-> t] :
              t \in UNION {[1..n -> ChainSyms] : n \in 1..MaxGroup}}

Chains ==
    {[num |-> x, segs |-> sg] :
         x \in ChainSyms, sg \in UNION {[1..n -> Segments] : n \in 1..MaxSegs}}

NoChain == [num |-> <<>>, segs |-> <<>>]

RenderSeg(seg) ==
    <<"/">> \o (IF seg.paren
                THEN <<"(">> \o Join(seg.toks, <<".">>) \o <<")">>
                ELSE seg.toks[1])

RECURSIVE RenderSegs(_)
RenderSegs(segs) ==
    IF segs = <<>> THEN <<>> ELSE RenderSeg(segs[1]) \o RenderSegs(Tail(segs))

Render(chain) == chain.num \o RenderSegs(chain.segs)

RawStrings == UNION {[1..n -> RawAlphabet] : n \in 0..MaxRawLen}

NotCalled == [exc |-> "not called", val |-> <<>>]

NoUnits == [s |-> <<>>, context |-> ""]

NoCall == [op |-> "", arg |-> <<>>, a |-> NoUnits, b |-> NoUnits,
           out |-> NotCalled]

\* no caller has used Prefix yet
NoCallers == <<>>

ParseIdle == ustring = <<>> /\ uchain = NoChain /\ parsed = NotCalled

UnitsIdle == u1 = NoUnits /\ u2 = NoUnits /\ ulast = NoCall

PQIdle ==
    /\ prefix_cls = PrefixUnloaded
    /\ qa = NoPQ /\ qb = NoPQ
    /\ plast = NoCall
    /\ callers = NoCallers /\ loads = 0

\* pyee/__init__.py builds both BooleanConfigParameter(False) toggles at
\* import; pyee/passives.py starts with ERROR_ON_Z_TRANSFORM = True
ConfigIdle ==
    /\ BooleanConfigParameter = FALSE /\ ERROR_ON_Z_TRANSFORM = TRUE
    /\ lastset = [name \in Toggles |-> FALSE]

\* no Impedance.simplify() call has started
NoSimplify ==
    [pc |-> "none", tol |-> Scalar(<<0, 1>>), num0 |-> <<>>, den0 |-> <<>>,
     shift |-> 0, K |-> <<1, 1>>, nz |-> <<>>, dz |-> <<>>,
     nz0 |-> <<>>, dz0 |-> <<>>, simpset |-> 0, exc |-> ""]

DPQIdle == za = NoPQ /\ zb = NoPQ /\ zlast = NoCall /\ simp = NoSimplify

InitParse ==
    /\ \/ uchain \in Chains /\ ustring = Render(uchain)
       \/ uchain = NoChain /\ ustring \in RawStrings
    /\ parsed = NotCalled
    /\ UnitsIdle
    /\ PQIdle
    /\ ConfigIdle
    /\ DPQIdle

\* Units.from_string(ustring)
CallFromString ==
    /\ parsed = NotCalled
    /\ parsed' = from_string(ustring)
    /\ UNCHANGED <<ustring, uchain, unitVars, pqVars, cfgVars, dpqVars>>

NextParse == CallFromString

SpecParse == InitParse /\ [][NextParse]_vars

(***************************************************************************)
(* Units arithmetic on instances made by Units.from_string                 *)
(***************************************************************************)

MaxExp == 2         \* largest exponent magnitude a result may hold

SeedStrings ==
    { <<"1">>, <<"m">>, <<"s">>, <<"H", "z">>,
      <<"m", "/", "s">>, <<"m", "/", "s", "^", "2">>,
      <<"H", "z", ".", "s">>, <<"1", "/", "(", "m", ".", "s", "^", "2", ")">> }

InBounds(x) ==
    \A k \in DOMAIN x.s : x.s[k] <= MaxExp /\ 0 - x.s[k] <= MaxExp

Call(op, arg, a, b, out) ==
    [op |-> op, arg |-> arg, a |-> a, b |-> b, out |-> out]

InitUnits ==
    /\ \E str \in SeedStrings :
          /\ u1 = from_string(str).val
          /\ ulast = Call("from_string", str, NoUnits, NoUnits, from_string(str))
    /\ u2 = create_unitless
    /\ ParseIdle
    /\ PQIdle
    /\ ConfigIdle
    /\ DPQIdle

\* u1 = Units.from_string(str)
UnitsFromString(str) ==
    LET r == from_string(str) IN
    /\ u1' = IF r.exc = "" THEN r.val ELSE u1
    /\ ulast' = Call("from_string", str, NoUnits, NoUnits, r)
    /\ UNCHANGED <<u2, parseVars, pqVars, cfgVars, dpqVars>>

\* Units.from_string(str(u2)), the result compared and dropped
UnitsReparse ==
    /\ ulast' = Call("from_string", Units__repr__(u2), u2, NoUnits,
                     from_string(Units__repr__(u2)))
    /\ UNCHANGED <<u1, u2, parseVars, pqVars, cfgVars, dpqVars>>

\* u2 = a * b
UnitsMul(a, b) ==
    /\ InBounds(Units__mul__(a, b))
    /\ u2' = Units__mul__(a, b)
    /\ ulast' = Call("mul", <<>>, a, b, Returned(Units__mul__(a, b)))
    /\ UNCHANGED <<u1, parseVars, pqVars, cfgVars, dpqVars>>

\* u2 = a / b
UnitsTrueDiv(a, b) ==
    /\ InBounds(Units__truediv__(a, b))
    /\ u2' = Units__truediv__(a, b)
    /\ ulast' = Call("truediv", <<>>, a, b, Returned(Units__truediv__(a, b)))
    /\ UNCHANGED <<u1, parseVars, pqVars, cfgVars, dpqVars>>

\* u2 = 1 / a
UnitsInvert(a) ==
    /\ u2' = Units__rtruediv__one(a)
    /\ ulast' = Call("rtruediv", <<>>, a, NoUnits,
                     Returned(Units__rtruediv__one(a)))
    /\ UNCHANGED <<u1, parseVars, pqVars, cfgVars, dpqVars>>

\* u2 = a.as_base()
UnitsAsBase(a) ==
    /\ InBounds(as_base(a))
    /\ u2' = as_base(a)
    /\ ulast' = Call("as_base", <<>>, a, NoUnits, Returned(as_base(a)))
    /\ UNCHANGED <<u1, parseVars, pqVars, cfgVars, dpqVars>>

NextUnits ==
    \/ \E str \in SeedStrings : UnitsFromString(str)
    \/ UnitsReparse
    \/ \E a \in {u1, u2}, b \in {u1, u2} : UnitsMul(a, b)
    \/ \E a \in {u1, u2}, b \in {u1, u2} : UnitsTrueDiv(a, b)
    \/ \E a \in {u1, u2} : UnitsInvert(a)
    \/ \E a \in {u1, u2} : UnitsAsBase(a)

Spec == InitUnits /\ [][NextUnits]_vars

(***************************************************************************)
(* Units methods called on one receiver: the compatibility checks + and -, *)
(* and the transformations with their context argument                     *)
(***************************************************************************)

\* the context tags given to from_string, as_base and simplify
UnitContexts == {"Electrical", "Lab"}

ObjStrings ==
    { <<"1">>, <<"m">>, <<"H", "z">>, <<"1", "/", "s">>, <<"V", "/", "A">> }

\* Units instances used as the right operand of * and /
ObjUnits == {from_string(str).val : str \in {<<"m">>, <<"1", "/", "s">>}}

\* the operands of + and -: Units instances, bare numbers and strings
CheckOperands ==
    {u1, u2} \cup {Scalar(<<5, 1>>), Scalar(<<0, 1>>), Str(<<"m">>), Str(<<"1">>)}

NoArg == [context |-> None, after |-> NoUnits, same |-> FALSE]

InitObj ==
    /\ \E str \in ObjStrings, ctx \in UnitContexts :
          /\ u1 = from_string_ctx(str, ctx).val
          /\ ulast = Call("from_string", NoArg, NoUnits, NoUnits,
                          from_string_ctx(str, ctx))
    /\ u2 = create_unitless
    /\ ParseIdle
    /\ PQIdle
    /\ ConfigIdle
    /\ DPQIdle

\* u1 = Units.from_string(str, context=ctx)
ObjFromString(str, ctx) ==
    LET r == from_string_ctx(str, ctx) IN
    /\ u1' = IF r.exc = "" THEN r.val ELSE u1
    /\ ulast' = Call("from_string", NoArg, NoUnits, NoUnits, r)
    /\ UNCHANGED <<u2, parseVars, pqVars, cfgVars, dpqVars>>

\* u1 + other
ObjAdd(other) ==
    /\ ulast' = Call("add", NoArg, u1, other, Units__add__(u1, other))
    /\ UNCHANGED <<u1, u2, parseVars, pqVars, cfgVars, dpqVars>>

\* u1 - other
ObjSub(other) ==
    /\ ulast' = Call("sub", NoArg, u1, other, Units__sub__(u1, other))
    /\ UNCHANGED <<u1, u2, parseVars, pqVars, cfgVars, dpqVars>>

\* other + u1, other not a Units instance
ObjRAdd(other) ==
    /\ ~IsUnits(other)
    /\ ulast' = Call("radd", NoArg, u1, other, Units__radd__(u1, other))
    /\ UNCHANGED <<u1, u2, parseVars, pqVars, cfgVars, dpqVars>>

\* other - u1, other not a Units instance
ObjRSub(other) ==
    /\ ~IsUnits(other)
    /\ ulast' = Call("rsub", NoArg, u1, other, Units__rsub__(u1, other))
    /\ UNCHANGED <<u1, u2, parseVars, pqVars, cfgVars, dpqVars>>

\* u2 = u1 * other
ObjMul(other) ==
    /\ InBounds(Units__mul__(u1, other))
    /\ u2' = Units__mul__(u1, other)
    /\ ulast' = Call("mul", [context |-> None, after |-> u1, same |-> FALSE],
                     u1, other, Returned(Units__mul__(u1, other)))
    /\ UNCHANGED <<u1, parseVars, pqVars, cfgVars, dpqVars>>

\* u2 = u1 / other
ObjTrueDiv(other) ==
    /\ InBounds(Units__truediv__(u1, other))
    /\ u2' = Units__truediv__(u1, other)
    /\ ulast' = Call("truediv", [context |-> None, after |-> u1, same |-> FALSE],
                     u1, other, Returned(Units__truediv__(u1, other)))
    /\ UNCHANGED <<u1, parseVars, pqVars, cfgVars, dpqVars>>

\* u2 = u1.as_base(context)
ObjAsBase(context) ==
    LET r == Units_as_base(u1, context) IN
    /\ r.out.exc = "" => InBounds(r.out.val)
    /\ u1' = r.self
    /\ u2' = IF r.out.exc = "" THEN r.out.val ELSE u2
    /\ ulast' = Call("as_base",
                     [context |-> context, after |-> r.self, same |-> r.same],
                     u1, NoUnits, r.out)
    /\ UNCHANGED <<parseVars, pqVars, cfgVars, dpqVars>>

\* u2 = u1.simplify(context)
ObjSimplify(context) ==
    LET r == Units_simplify(u1, context) IN
    /\ u1' = r.self
    /\ u2' = IF r.out.exc = "" THEN r.out.val ELSE u2
    /\ ulast' = Call("simplify",
                     [context |-> context, after |-> r.self, same |-> r.same],
                     u1, NoUnits, r.out)
    /\ UNCHANGED <<parseVars, pqVars, cfgVars, dpqVars>>

NextObj ==
    \/ \E str \in ObjStrings, ctx \in UnitContexts : ObjFromString(str, ctx)
    \/ \E other \in CheckOperands : ObjAdd(other)
    \/ \E other \in CheckOperands : ObjSub(other)
    \/ \E other \in CheckOperands : ObjRAdd(other)
    \/ \E other \in CheckOperands : ObjRSub(other)
    \/ \E other \in ObjUnits \cup {u1} : ObjMul(other)
    \/ \E other \in ObjUnits \cup {u1} : ObjTrueDiv(other)
    \/ \E context \in UnitContexts \cup {None} : ObjAsBase(context)
    \/ \E context \in UnitContexts \cup {None} : ObjSimplify(context)

SpecObj == InitObj /\ [][NextObj]_vars

(***************************************************************************)
(* Prefix selection and PhysicalQuantity addition and subtraction          *)
(***************************************************************************)

\* the numbers handed to Prefix.from_number
PrefixNumbers ==
    { <<0, 1>>, <<1, 2000>>, <<1, 1000>>, <<3, 20>>, <<1, 1>>, <<15, 1>>,
      <<999, 1>>, <<1000, 1>>, <<1001, 1>>, <<6076, 5>>, <<999999, 1>>,
      <<1000000, 1>>, <<2000000, 1>>,
      <<-1, 2000>>, <<-3, 20>>, <<-15, 1>>, <<-999, 1>>, <<-1000, 1>>,
      <<-1001, 1>>, <<-6076, 5>> }

\* the values handed to PhysicalQuantity.from_value and used as bare operands
PQValues ==
    { <<0, 1>>, <<481, 8>>, <<400, 1>>, <<1000, 1>>, <<-15, 1>> }

PQUnitStrings == { <<"k", "g">>, <<"m">> }

InitPQ ==
    /\ prefix_cls = PrefixUnloaded
    /\ qa = NoPQ /\ qb = NoPQ
    /\ plast = NoCall
    /\ callers = NoCallers /\ loads = 0
    /\ ParseIdle
    /\ UnitsIdle
    /\ ConfigIdle
    /\ DPQIdle

\* Prefix.from_number(x)
PrefixFromNumber(x) ==
    /\ prefix_cls' = EnsureLoaded(prefix_cls)
    /\ plast' = Call("from_number", <<>>, Scalar(x), NoPQ,
                     from_number(EnsureLoaded(prefix_cls), x))
    /\ UNCHANGED <<qa, qb, parseVars, unitVars, cfgVars, dpqVars, loadVars>>

\* qa = PhysicalQuantity.from_value(value, units)
FromValueA(value, units) ==
    LET r == from_value(EnsureLoaded(prefix_cls), value, units) IN
    /\ prefix_cls' = EnsureLoaded(prefix_cls)
    /\ qa' = IF r.exc = "" THEN r.val ELSE qa
    /\ plast' = Call("from_value", units, Scalar(value), NoPQ, r)
    /\ UNCHANGED <<qb, parseVars, unitVars, cfgVars, dpqVars, loadVars>>

\* qb = PhysicalQuantity.from_value(value, units)
FromValueB(value, units) ==
    LET r == from_value(EnsureLoaded(prefix_cls), value, units) IN
    /\ prefix_cls' = EnsureLoaded(prefix_cls)
    /\ qb' = IF r.exc = "" THEN r.val ELSE qb
    /\ plast' = Call("from_value", units, Scalar(value), NoPQ, r)
    /\ UNCHANGED <<qa, parseVars, unitVars, cfgVars, dpqVars, loadVars>>

\* the operands of an operator: the quantities made so far
Quantities == {qa, qb} \ {NoPQ}

Operands == Quantities \cup {Scalar(x) : x \in PQValues}

\* self - other
PQSub(self, other) ==
    /\ plast' = Call("sub", <<>>, self, other,
                     PQ__sub__(prefix_cls, self, other))
    /\ UNCHANGED <<prefix_cls, qa, qb, parseVars, unitVars, cfgVars, dpqVars,
                   loadVars>>

\* other - self, other a bare number
PQRSub(self, other) ==
    /\ plast' = Call("rsub", <<>>, self, other,
                     PQ__rsub__(prefix_cls, self, other))
    /\ UNCHANGED <<prefix_cls, qa, qb, parseVars, unitVars, cfgVars, dpqVars,
                   loadVars>>

\* self + other
PQAdd(self, other) ==
    /\ plast' = Call("add", <<>>, self, other,
                     PQ__add__(prefix_cls, self, other))
    /\ UNCHANGED <<prefix_cls, qa, qb, parseVars, unitVars, cfgVars, dpqVars,
                   loadVars>>

MaxDen == 2000      \* largest denominator of a quotient handed to the Prefix

QuotientInBounds(x, y) == y[1] = 0 \/ RatDiv(x, y)[2] <= MaxDen

\* self * other, and other * self for a bare number
PQMul(self, other) ==
    /\ plast' = Call("mul", <<>>, self, other,
                     PQ__mul__(prefix_cls, self, other))
    /\ UNCHANGED <<prefix_cls, qa, qb, parseVars, unitVars, cfgVars, dpqVars,
                   loadVars>>

\* self / other
PQTrueDiv(self, other) ==
    /\ QuotientInBounds(PQ_value(self),
                        IF IsPQ(other) THEN PQ_value(other) ELSE other.num)
    /\ plast' = Call("truediv", <<>>, self, other,
                     PQ__truediv__(prefix_cls, self, other))
    /\ UNCHANGED <<prefix_cls, qa, qb, parseVars, unitVars, cfgVars, dpqVars,
                   loadVars>>

\* other / self, other a bare number
PQRTrueDiv(self, other) ==
    /\ QuotientInBounds(other.num, PQ_value(self))
    /\ plast' = Call("rtruediv", <<>>, self, other,
                     PQ__rtruediv__(prefix_cls, self, other))
    /\ UNCHANGED <<prefix_cls, qa, qb, parseVars, unitVars, cfgVars, dpqVars,
                   loadVars>>

\* qa.value = val
SetValueA(val) ==
    LET r == PQ_value_setter(prefix_cls, qa, val) IN
    /\ qa # NoPQ
    /\ qa' = IF r.exc = "" THEN r.val ELSE qa
    /\ plast' = Call("value", <<>>, qa, Scalar(val), r)
    /\ UNCHANGED <<prefix_cls, qb, parseVars, unitVars, cfgVars, dpqVars,
                   loadVars>>

\* pyee.ERROR_ON_UNIT_MISSMATCH.set(value)
SetUnitMissmatch(value) ==
    /\ BooleanConfigParameter' = BooleanConfigParameter_set(value)
    /\ lastset' = [lastset EXCEPT !["ERROR_ON_UNIT_MISSMATCH"] = value]
    /\ UNCHANGED <<ERROR_ON_Z_TRANSFORM, parseVars, unitVars, pqVars, dpqVars>>

\* pyee.ERROR_ON_UNITLESS_OPERATORS.set(value)
SetUnitlessOperators(value) ==
    /\ BooleanConfigParameter' = BooleanConfigParameter_set(value)
    /\ lastset' = [lastset EXCEPT !["ERROR_ON_UNITLESS_OPERATORS"] = value]
    /\ UNCHANGED <<ERROR_ON_Z_TRANSFORM, parseVars, unitVars, pqVars, dpqVars>>

\* BooleanConfigParameter(default) once more: __new__ returns the instance
\* and __init__ assigns bool(default) to its parameter
NewBooleanConfigParameter(default) ==
    /\ BooleanConfigParameter' = default
    /\ UNCHANGED <<ERROR_ON_Z_TRANSFORM, lastset, parseVars, unitVars, pqVars,
                   dpqVars>>

NextPQ ==
    \/ \E x \in PrefixNumbers : PrefixFromNumber(x)
    \/ \E x \in PQValues, str \in PQUnitStrings : FromValueA(x, str)
    \/ \E x \in PQValues, str \in PQUnitStrings : FromValueB(x, str)
    \/ \E self \in Quantities, other \in Operands : PQSub(self, other)
    \/ \E self \in Quantities, x \in PQValues : PQRSub(self, Scalar(x))
    \/ \E self \in Quantities, other \in Operands : PQAdd(self, other)
    \/ \E self \in Quantities, other \in Operands : PQMul(self, other)
    \/ \E self \in Quantities, other \in Operands : PQTrueDiv(self, other)
    \/ \E self \in Quantities, x \in PQValues : PQRTrueDiv(self, Scalar(x))
    \/ \E x \in PQValues : SetValueA(x)
    \/ \E value \in BOOLEAN : SetUnitMissmatch(value)

SpecPQ == InitPQ /\ [][NextPQ]_vars

(***************************************************************************)
(* DependantPhysicalQuantity, Impedance and the passive components         *)
(***************************************************************************)

MaxPolyLen == 3     \* longest coefficient array kept as an operand
MaxCoef == 6        \* largest numerator or denominator of a kept coefficient

\* DependantPhysicalQuantity.__init__ after Units.from_any(units) and, for a
\* bare number var0, PhysicalQuantity.from_value(value=var0, units=var_units)
DPQ__init__with(num, den, units, var0) ==
    IF units.exc # "" THEN units
    ELSE IF var0.exc # "" THEN var0
    ELSE Returned(DependantPhysicalQuantity(num, den, units.val, var0.val))

\* DependantPhysicalQuantity.__init__(num, den, units, var0, var_units),
\* units and var_units unit strings, var0 None or a bare number
DPQ__init__(cls, num, den, units, var0, var_units) ==
    DPQ__init__with(num, den, from_string(units),
        IF var0 = NoPQ THEN Returned(NoPQ)
        ELSE from_value(cls, var0.num, var_units))

\* the (num, den) pairs handed to the constructor
DPQArrays ==
    { <<<< <<1, 1>> >>, << <<1, 1>> >>>>,
      <<<< <<0, 1>> >>, << <<1, 1>> >>>>,
      <<<< <<1, 1>>, <<1, 1>> >>, << <<0, 1>>, <<2, 1>> >>>> }

DPQUnitStrings == { <<"V", "/", "A">>, <<"m">> }

\* the values of var0 handed to the setter, and the bare numbers used as
\* operands and as arguments of a call
DPQNumbers == { <<0, 1>>, <<2, 1>> }

\* the components Resistor.from_value(3) and Capacitor.from_value(2)
ComponentValues == ("Resistor" :> <<3, 1>>) @@ ("Capacitor" :> <<2, 1>>)

Components(cls) ==
    { PassiveComponent_from_value(cls, type, ComponentValues[type]).val :
        type \in DOMAIN ComponentValues }

\* the plain quantities used as operands and as arguments of a call
DPQQuantities(cls) ==
    { from_value(cls, <<2, 1>>, str).val :
        str \in {<<"V", "/", "A">>, <<"H", "z">>} }

\* dependant quantities used as right operands besides za and zb
OtherDependants(cls) ==
    { DPQ__init__(cls, << <<1, 1>>, <<1, 1>> >>, << <<0, 1>>, <<2, 1>> >>,
                  <<"V", "/", "A">>, Scalar(<<2, 1>>), <<"H", "z">>).val,
      DPQ__init__(cls, << <<0, 1>> >>, << <<1, 1>> >>, <<"m">>, NoPQ,
                  <<"H", "z">>).val }

InBoundsCoef(c) ==
    \A i \in 1..Len(c) : Abs(c[i][1]) <= MaxCoef /\ c[i][2] <= MaxCoef

InBoundsDPQ(z) ==
    /\ Len(z.num) <= MaxPolyLen /\ Len(z.den) <= MaxPolyLen
    /\ InBoundsCoef(z.num) /\ InBoundsCoef(z.den)

\* za + za and za - za are kept as the operand zb when small enough
Kept(r, a, b, old) ==
    IF r.exc = "" /\ a = za /\ b = za /\ InBoundsDPQ(r.val) THEN r.val
    ELSE old

Dependants == {za, zb} \ {NoPQ}

DPQOperands(cls) ==
    Dependants \cup OtherDependants(cls) \cup DPQQuantities(cls)
    \cup {Scalar(x) : x \in DPQNumbers}

\* the arguments of a call and the values assigned to var0
DPQArguments(cls) ==
    {NoPQ} \cup DPQQuantities(cls) \cup {Scalar(x) : x \in DPQNumbers}

InitDPQ ==
    /\ za = NoPQ /\ zb = NoPQ /\ zlast = NoCall /\ simp = NoSimplify
    /\ ParseIdle
    /\ UnitsIdle
    /\ PQIdle
    /\ ConfigIdle

\* the call is recorded and its result, when it is a dependant quantity,
\* becomes za
IntoZa(op, a, b, r) ==
    /\ prefix_cls' = EnsureLoaded(prefix_cls)
    /\ za' = IF r.exc = "" /\ IsDPQ(r.val) THEN r.val ELSE za
    /\ zlast' = Call(op, ERROR_ON_Z_TRANSFORM, a, b, r)
    /\ UNCHANGED <<zb, simp, qa, qb, plast, parseVars, unitVars, cfgVars,
                   loadVars>>

\* the call is recorded and its result, when kept, becomes zb
IntoZb(op, a, b, r) ==
    /\ prefix_cls' = EnsureLoaded(prefix_cls)
    /\ zb' = Kept(r, a, b, zb)
    /\ zlast' = Call(op, ERROR_ON_Z_TRANSFORM, a, b, r)
    /\ UNCHANGED <<za, simp, qa, qb, plast, parseVars, unitVars, cfgVars,
                   loadVars>>

\* the call is recorded
Recorded(op, a, b, r) ==
    /\ prefix_cls' = EnsureLoaded(prefix_cls)
    /\ zlast' = Call(op, ERROR_ON_Z_TRANSFORM, a, b, r)
    /\ UNCHANGED <<za, zb, simp, qa, qb, plast, parseVars, unitVars,
                   cfgVars, loadVars>>

\* za = DependantPhysicalQuantity(num, den, units, var0, var_units="Hz")
NewDependant(num, den, units, var0) ==
    IntoZa("init", NoPQ, NoPQ,
           DPQ__init__(EnsureLoaded(prefix_cls), num, den, units, var0,
                       <<"H", "z">>))

\* za = x.Z for a component x
TakeZ(x) == IntoZa("Z", x, NoPQ, Z(EnsureLoaded(prefix_cls), x))

\* za = x + y or x - y for two components
ComponentAddSub(x, y, sub) ==
    IntoZa(IF sub THEN "component sub" ELSE "component add", x, y,
           PassiveComponent_addsub(EnsureLoaded(prefix_cls),
                                   ERROR_ON_Z_TRANSFORM, x, y, sub))

\* zb = a + b, or k + b for a bare number k
DPQAdd(a, b) ==
    IntoZb("add", a, b,
           DPQ_binary_addsub(EnsureLoaded(prefix_cls), a, b, FALSE))

\* zb = a - b, or k - b for a bare number k
DPQSub(a, b) ==
    IntoZb("sub", a, b,
           DPQ_binary_addsub(EnsureLoaded(prefix_cls), a, b, TRUE))

\* a * b
DPQMul(a, b) == Recorded("mul", a, b, DPQ__mul__(a, b))

\* k * b for a bare number k
DPQRMul(k, b) == Recorded("rmul", k, b, DPQ__mul__(b, k))

\* a / b
DPQTrueDiv(a, b) == Recorded("truediv", a, b, DPQ__truediv__(a, b))

\* k / b for a bare number k
DPQRTrueDiv(k, b) == Recorded("rtruediv", k, b, DPQ__rtruediv__(b, k))

\* the evaluation stays within the numbers the model can hold
CallInBounds(self, var) ==
    LET val == IF var = NoPQ
               THEN (IF self.var0 = NoPQ THEN <<0, 1>> ELSE PQ_vp(self.var0))
               ELSE IF IsPQ(var) THEN PQ_vp(var) ELSE var.num
    IN  /\ Len(self.num) <= 2 /\ Len(self.den) <= 2
        /\ QuotientInBounds(polyeval(self.num, val), polyeval(self.den, val))

\* self(var); var is NoPQ when the argument is omitted
DPQCall(self, var) ==
    /\ self # NoPQ
    /\ CallInBounds(self, var)
    /\ Recorded("call", self, var,
                DPQ__call__(EnsureLoaded(prefix_cls), self, var))

\* za.var0 = val
SetVar0(val) ==
    /\ za # NoPQ
    /\ IntoZa("var0", za, val,
              DPQ_var0_setter(EnsureLoaded(prefix_cls), za, val))

\* pyee.passives.set_error_on_z_transform(val)
SetErrorOnZTransform(val) ==
    /\ ERROR_ON_Z_TRANSFORM' = set_error_on_z_transform(val)
    /\ UNCHANGED <<BooleanConfigParameter, lastset, parseVars, unitVars,
                   pqVars, dpqVars>>

\* the operands are built before the arithmetic on them starts
Building == zb = NoPQ

NextDPQ ==
    \/ /\ Building
       /\ \E arr \in DPQArrays, str \in DPQUnitStrings,
             var0 \in {NoPQ, Scalar(<<2, 1>>)} :
                 NewDependant(arr[1], arr[2], str, var0)
    \/ \E a \in Dependants, b \in DPQOperands(EnsureLoaded(prefix_cls)) :
          \/ DPQAdd(a, b)
          \/ DPQSub(a, b)
          \/ DPQMul(a, b)
          \/ DPQTrueDiv(a, b)
    \/ \E k \in DPQNumbers, b \in Dependants :
          \/ DPQAdd(Scalar(k), b)
          \/ DPQSub(Scalar(k), b)
          \/ DPQRMul(Scalar(k), b)
          \/ DPQRTrueDiv(Scalar(k), b)

SpecDPQ == InitDPQ /\ [][NextDPQ]_vars

(***************************************************************************)
(* The passive components and their impedances                             *)
(***************************************************************************)

\* the operands of |: the components above, a second resistor and an
\* inductor
ParallelComponents(cls) ==
    Components(cls)
    \cup { PassiveComponent_from_value(cls, "Resistor", <<6, 1>>).val,
           PassiveComponent_from_value(cls, "Inductor", <<2, 1>>).val }

\* x | y for two components
ComponentOr(x, y) ==
    Recorded("or", x, y,
             PassiveComponent__or__(EnsureLoaded(prefix_cls),
                                    ERROR_ON_Z_TRANSFORM, x, y))

\* x + y or x - y for two of these components, the result not kept
ComponentSum(x, y, sub) ==
    Recorded(IF sub THEN "difference" ELSE "sum", x, y,
             PassiveComponent_addsub(EnsureLoaded(prefix_cls),
                                     ERROR_ON_Z_TRANSFORM, x, y, sub))

NextPassive ==
    \/ /\ Building
       /\ \E x, y \in Components(EnsureLoaded(prefix_cls)) :
             \/ TakeZ(x)
             \/ \E sub \in BOOLEAN : ComponentAddSub(x, y, sub)
    \/ \E a \in Dependants,
          b \in Dependants \cup Components(EnsureLoaded(prefix_cls)) :
             \/ DPQAdd(a, b)
             \/ DPQSub(a, b)
    \/ /\ Building
       /\ \E x, y \in ParallelComponents(EnsureLoaded(prefix_cls)) :
             \/ ComponentOr(x, y)
             \/ \E sub \in BOOLEAN : ComponentSum(x, y, sub)
    \/ \E val \in BOOLEAN : SetErrorOnZTransform(val)

SpecPassive == InitDPQ /\ [][NextPassive]_vars

(***************************************************************************)
(* Evaluation of a DependantPhysicalQuantity and its default point var0    *)
(***************************************************************************)

\* the frequency_units and the frequency handed to Impedance
FrequencyUnits == { <<"H", "z">>, <<"r", "a", "d", "/", "s">>, <<"k", "H", "z">> }

Frequencies == { Omitted, NoPQ, Scalar(<<2, 1>>) }

\* za = Impedance(num, den, frequency_units=str), with frequency=... unless
\* frequency is Omitted
ConstructImpedance(num, den, frequency, str) ==
    IntoZa("Impedance", frequency, Str(str),
           Impedance_call(EnsureLoaded(prefix_cls), num, den, frequency, str))

NextCall ==
    \/ \E arr \in DPQArrays, str \in DPQUnitStrings,
          var0 \in {NoPQ, Scalar(<<2, 1>>)} :
              NewDependant(arr[1], arr[2], str, var0)
    \/ \E arr \in DPQArrays, str \in FrequencyUnits,
          frequency \in Frequencies :
              ConstructImpedance(arr[1], arr[2], frequency, str)
    \/ \E val \in DPQArguments(EnsureLoaded(prefix_cls)) :
          \/ DPQCall(za, val)
          \/ SetVar0(val)

SpecCall == InitDPQ /\ [][NextCall]_vars

(***************************************************************************)
(* Impedance.simplify, one step of the call at a time.  The roots that     *)
(* numpy.polynomial.polynomial.polyroots returns are taken as exact        *)
(***************************************************************************)

MaxRoot == 2        \* largest magnitude of a root of an array of degree >= 2
MaxPasses == 20     \* while ncommon and simpset < 20

\* pyee.GLOBAL_TOLERANCE, the NumericConfigParameter that is the default tol
GLOBAL_TOLERANCE == [cfg |-> "NumericConfigParameter"]

\* the tol handed to the constructor is a float
IsNumber(tol) == "num" \in DOMAIN tol

\* abs(x) <= tol for one entry x
WithinTol(x, tol) == RatLeq(RatAbs(x), tol)

\* np.where(abs(c) <= tol, 0, c)
ZeroSmall(c, tol) ==
    [i \in 1..Len(c) |-> IF WithinTol(c[i], tol) THEN <<0, 1>> ELSE c[i]]

\* np.argmin(c <= tol): the index, counted from 0, of the first entry for
\* which c <= tol is false, and 0 when it is true of every entry
ArgMinLeq(c, tol) ==
    LET above == {i \in 1..Len(c) : ~RatLeq(c[i], tol)}
    IN  IF above = {} THEN 0
        ELSE (CHOOSE i \in above : \A j \in above : i <= j) - 1

\* commonzeros = min(numzeros, denzeros)
commonzeros(num, den, tol) ==
    IF ArgMinLeq(num, tol) < ArgMinLeq(den, tol) THEN ArgMinLeq(num, tol)
    ELSE ArgMinLeq(den, tol)

\* c[k:]
Drop(c, k) == SubSeq(c, k + 1, Len(c))

\* Kn = c[-1] if abs(c[-1]) >= tol else 1
FrontConstant(c, tol) ==
    IF RatLeq(tol, RatAbs(c[Len(c)])) THEN c[Len(c)] ELSE <<1, 1>>

\* ndarray / number
ArrayOver(c, k) == [i \in 1..Len(c) |-> RatDiv(c[i], k)]

\* pu.as_series with trim: the array without its trailing zeros, one entry
\* at least
RECURSIVE TrimSeq(_)
TrimSeq(c) ==
    IF Len(c) > 1 /\ c[Len(c)][1] = 0 THEN TrimSeq(SubSeq(c, 1, Len(c) - 1))
    ELSE c

\* c * (x - r)
TimesLinear(c, r) ==
    [k \in 1..(Len(c) + 1) |->
        RatSub(IF k > 1 THEN c[k - 1] ELSE <<0, 1>>,
               IF k <= Len(c) THEN RatMul(r, c[k]) ELSE <<0, 1>>)]

\* np.polynomial.polynomial.polyfromroots(roots): the monic polynomial with
\* these roots, [1] for no roots
RECURSIVE polyfromroots(_)
polyfromroots(roots) ==
    IF roots = <<>> THEN << <<1, 1>> >>
    ELSE TimesLinear(polyfromroots(Tail(roots)), roots[1])

\* the sorted lists of n whole numbers up to MaxRoot in magnitude
SortedRoots(n) ==
    { [i \in 1..n |-> <<s[i], 1>>] :
        s \in { q \in [1..n -> (0 - MaxRoot)..MaxRoot] :
                    \A i \in 1..(n - 1) : q[i] <= q[i + 1] } }

\* np.polynomial.polynomial.polyroots(c): none for a trimmed array shorter
\* than 2, -c[0]/c[1] for one of length 2, else the sorted eigenvalues of
\* the companion matrix
polyroots(c) ==
    LET t == TrimSeq(c)
    IN  IF Len(t) < 2 THEN <<>>
        ELSE IF Len(t) = 2
        THEN << RatSub(<<0, 1>>, RatDiv(t[1], t[2])) >>
        ELSE CHOOSE r \in SortedRoots(Len(t) - 1) :
                 ArrayTimes(polyfromroots(r), t[Len(t)]) = t

\* the elements of a list
Elements(l) == {l[i] : i \in 1..Len(l)}

\* common = set(nz) & set(dz)
CommonRoots(nz, dz) == Elements(nz) \cap Elements(dz)

\* the list without every entry equal to r
DeleteAll(l, r) == SelectSeq(l, LAMBDA x : x # r)

\* np.delete(l, np.argwhere(l == r)[0]): the list without the first entry
\* equal to r
DeleteFirst(l, r) ==
    LET i == CHOOSE k \in 1..Len(l) :
                 l[k] = r /\ \A j \in 1..(k - 1) : l[j] # r
    IN  SubSeq(l, 1, i - 1) \o SubSeq(l, i + 1, Len(l))

\* for r in common: one list after the deletions of the loop body
RECURSIVE RemoveEach(_, _)
RemoveEach(l, common) ==
    IF common = {} THEN l
    ELSE LET r == CHOOSE x \in common : TRUE
         IN  RemoveEach(DeleteFirst(l, r), common \ {r})

\* the arrays handed to Impedance(num, den, tol=tol)
ImpedanceNums ==
    { << <<3, 1>> >>, << <<0, 1>>, <<1, 1>> >>, << <<-1, 1>>, <<1, 1>> >>,
      << <<1, 1>>, <<1, 1>> >>, << <<1, 1>>, <<2, 1>>, <<1, 1>> >>,
      << <<2, 1>>, <<3, 1>>, <<1, 1>> >>,
      << <<-1, 1>>, <<0, 1>>, <<1, 1>> >> }

ImpedanceDens ==
    { << <<1, 1>> >>, << <<0, 1>>, <<1, 1>> >>, << <<0, 1>>, <<2, 1>> >>,
      << <<1, 1>>, <<1, 1>> >>, << <<1, 1>>, <<2, 1>>, <<1, 1>> >>,
      << <<-1, 1>>, <<1, 1>> >> }

\* the default tol and the float 0.001
Tolerances == { GLOBAL_TOLERANCE, Scalar(<<1, 1000>>) }

\* no simplify() call is running on za
SimplifyIdle == simp.pc \in {"none", "ready", "done"}

\* za = the Impedance r the constructor returned, built with this tol
ImpedanceInto(tol, r) ==
    /\ prefix_cls' = EnsureLoaded(prefix_cls)
    /\ za' = IF r.exc = "" THEN r.val ELSE za
    /\ simp' = IF r.exc = "" THEN [NoSimplify EXCEPT !.pc = "ready", !.tol = tol]
               ELSE simp
    /\ UNCHANGED <<zb, zlast, qa, qb, plast, parseVars, unitVars, cfgVars,
                   loadVars>>

\* za = Impedance(num, den, tol=tol)
NewImpedance(num, den, tol) ==
    /\ SimplifyIdle
    /\ ImpedanceInto(tol, Impedance(EnsureLoaded(prefix_cls), num, den))

\* za.simplify() up to the removal of the common zero roots: abs(self.num)
\* <= self.tol raises TypeError for a NumericConfigParameter, which has no
\* __ge__ to answer the comparison the floats decline
SimplifyCall ==
    /\ simp.pc \in {"ready", "done"}
    /\ IF IsNumber(simp.tol)
       THEN LET num == ZeroSmall(za.num, simp.tol.num)
                den == ZeroSmall(za.den, simp.tol.num)
                k   == commonzeros(num, den, simp.tol.num)
            IN  /\ za' = [za EXCEPT !.num = Drop(num, k), !.den = Drop(den, k)]
                /\ simp' = [simp EXCEPT !.pc = "roots", !.exc = "",
                                        !.num0 = za.num, !.den0 = za.den,
                                        !.shift = k]
       ELSE /\ za' = za
            /\ simp' = [simp EXCEPT !.pc = "done", !.exc = "TypeError"]
    /\ UNCHANGED <<zb, zlast, parseVars, unitVars, pqVars, cfgVars>>

\* the front constants are divided out and the roots are taken
SimplifyRoots ==
    /\ simp.pc = "roots"
    /\ LET Kn  == FrontConstant(za.num, simp.tol.num)
           Kd  == FrontConstant(za.den, simp.tol.num)
           num == ArrayOver(za.num, Kn)
           den == ArrayOver(za.den, Kd)
       IN  /\ za' = [za EXCEPT !.num = num, !.den = den]
           /\ simp' = [simp EXCEPT !.pc = "loop", !.K = RatDiv(Kn, Kd),
                                   !.nz = polyroots(num), !.dz = polyroots(den),
                                   !.nz0 = polyroots(num),
                                   !.dz0 = polyroots(den), !.simpset = 0]
    /\ UNCHANGED <<zb, zlast, parseVars, unitVars, pqVars, cfgVars>>

\* while ncommon and simpset < 20
LoopGoesOn ==
    CommonRoots(simp.nz, simp.dz) # {} /\ simp.simpset < MaxPasses

\* one pass of the loop
SimplifyPass ==
    /\ simp.pc = "loop"
    /\ LoopGoesOn
    /\ simp' = [simp EXCEPT
                   !.simpset = @ + 1,
                   !.nz = RemoveEach(@, CommonRoots(simp.nz, simp.dz)),
                   !.dz = RemoveEach(@, CommonRoots(simp.nz, simp.dz))]
    /\ UNCHANGED <<za, zb, zlast, parseVars, unitVars, pqVars, cfgVars>>

\* the arrays are put back together and simplify returns self
SimplifyReturn ==
    /\ simp.pc = "loop"
    /\ ~LoopGoesOn
    /\ za' = [za EXCEPT !.num = ArrayTimes(polyfromroots(simp.nz), simp.K),
                        !.den = polyfromroots(simp.dz)]
    /\ simp' = [simp EXCEPT !.pc = "done"]
    /\ UNCHANGED <<zb, zlast, parseVars, unitVars, pqVars, cfgVars>>

NextSimplify ==
    \/ \E num \in ImpedanceNums, den \in ImpedanceDens, tol \in Tolerances :
          NewImpedance(num, den, tol)
    \/ SimplifyCall
    \/ SimplifyRoots
    \/ SimplifyPass
    \/ SimplifyReturn

SpecSimplify == InitDPQ /\ [][NextSimplify]_vars

\* a pass of the loop that can run does run: the method is sequential code
SpecSimplifyLive == SpecSimplify /\ WF_vars(SimplifyPass)

(***************************************************************************)
(* First use of Prefix by several callers, one statement at a time         *)
(***************************************************************************)

NumCallers == 2     \* callers that use Prefix before any table is loaded

Callers == 1..NumCallers

\* the numbers handed to from_number by these callers
FirstNumbers == { <<1, 1>>, <<1000, 1>> }

\* what a caller runs: Prefix.from_number(pnum) or Prefix("k", 1000, "kilo")
FirstCalls ==
    { [op |-> "from_number", pnum |-> x] : x \in FirstNumbers }
    \cup { [op |-> "Prefix", pnum |-> <<1000, 1>>] }

\* caller c stands at the statement pc
At(c, pc) == c \in DOMAIN callers /\ callers[c].pc = pc

\* the callers with caller c at the record rec
WithCaller(c, rec) ==
    [k \in DOMAIN callers \cup {c} |-> IF k = c THEN rec ELSE callers[k]]

\* caller c moves on to the statement pc
Goes(c, pc) == callers' = WithCaller(c, [callers[c] EXCEPT !.pc = pc])

\* what every step of a caller leaves alone
OnlyPrefix ==
    UNCHANGED <<qa, qb, plast, parseVars, unitVars, cfgVars, dpqVars>>

\* caller c enters from_number or __new__
FirstUse(c, call) ==
    /\ c \notin DOMAIN callers
    /\ callers' = WithCaller(c, [pc |-> "check", op |-> call.op,
                                 pnum |-> call.pnum, seen |-> PrefixUnloaded,
                                 out |-> NotCalled])
    /\ UNCHANGED <<prefix_cls, loads>>
    /\ OnlyPrefix

\* if cls._DATA_FILE is None: cls.reload_data()
CheckDataFile(c) ==
    /\ At(c, "check")
    /\ Goes(c, IF prefix_cls.DATA_FILE = NoFile THEN "reload" ELSE "body")
    /\ UNCHANGED <<prefix_cls, loads>>
    /\ OnlyPrefix

\* cls._DATA_FILE = datafile
SetDataFile(c) ==
    /\ At(c, "reload")
    /\ prefix_cls' = [prefix_cls EXCEPT !.DATA_FILE = "SI_prefixes"]
    /\ Goes(c, "load")
    /\ UNCHANGED loads
    /\ OnlyPrefix

\* cls._data_by_symbol = load_data_file(cls._DATA_FILE)
LoadDataFile(c) ==
    /\ At(c, "load")
    /\ prefix_cls' = [prefix_cls EXCEPT !.data_by_symbol = SI_prefixes]
    /\ loads' = loads + 1
    /\ Goes(c, "by_value")
    /\ OnlyPrefix

\* cls._data_by_value = {...}
SetDataByValue(c) ==
    /\ At(c, "by_value")
    /\ prefix_cls' = [prefix_cls EXCEPT
           !.data_by_value = data_by_value_of(prefix_cls.data_by_symbol)]
    /\ Goes(c, "scale")
    /\ UNCHANGED loads
    /\ OnlyPrefix

\* cls._data_value_scale = sorted(cls._data_by_value.keys())
SetDataValueScale(c) ==
    /\ At(c, "scale")
    /\ prefix_cls' = [prefix_cls EXCEPT
           !.data_value_scale = SortedRats(DOMAIN prefix_cls.data_by_value)]
    /\ Goes(c, "by_name")
    /\ UNCHANGED loads
    /\ OnlyPrefix

\* cls._data_by_name = {...}
SetDataByName(c) ==
    /\ At(c, "by_name")
    /\ prefix_cls' = [prefix_cls EXCEPT
           !.data_by_name = data_by_name_of(prefix_cls.data_by_symbol)]
    /\ Goes(c, "body")
    /\ UNCHANGED loads
    /\ OnlyPrefix

\* the rest of from_number: the lookup in _data_value_scale and
\* _data_by_value as they are now (a second load stores equal tables, so
\* the reads of one lookup agree), or the rest of the constructor
RunBody(c) ==
    /\ At(c, "body")
    /\ callers' = WithCaller(c, [callers[c] EXCEPT
           !.pc = "done",
           !.seen = prefix_cls,
           !.out = IF callers[c].op = "from_number"
                   THEN from_number(prefix_cls, callers[c].pnum)
                   ELSE Returned(Prefix("k", <<1000, 1>>, "kilo"))])
    /\ UNCHANGED <<prefix_cls, loads>>
    /\ OnlyPrefix

NextFirstUse ==
    \E c \in Callers :
        \/ \E call \in FirstCalls : FirstUse(c, call)
        \/ CheckDataFile(c)
        \/ SetDataFile(c)
        \/ LoadDataFile(c)
        \/ SetDataByValue(c)
        \/ SetDataValueScale(c)
        \/ SetDataByName(c)
        \/ RunBody(c)

SpecFirstUse == InitPQ /\ [][NextFirstUse]_vars

(***************************************************************************)
(* The setter of PhysicalQuantity.units and Units.convert_to               *)
(***************************************************************************)

\* the "conversions" entries of the Electrical context, as load_unit_context
\* reads them from the context's data file: symbol to target symbol to
\* (offset, scale)
ContextConversions ==
    (<<"H", "z">> :> (<<"r", "p", "m">> :> <<<<0, 1>>, <<60, 1>>>>))
    @@ (<<"N">> :> (<<"N", "r">> :> <<<<-400, 1>>, <<1, 1>>>>))

\* selfinfo.get("c", dict()) for the symbol sym of the context
Conversions(sym) ==
    IF sym \in DOMAIN ContextConversions THEN ContextConversions[sym]
    ELSE <<>>

\* Units.convert_to(self, newunits): the pair (offset, scale) of the function
\* x -> offset + scale*x it returns, (0, 1) for lambda x: x
convert_to(self, newunits) ==
    IF Units__eq__(self, newunits) THEN Returned(<<<<0, 1>>, <<1, 1>>>>)
    ELSE IF self.context \notin ContextFiles THEN Raised("FileNotFoundError")
    ELSE IF Units__repr__(self) \notin DOMAIN ContextBase
    THEN Raised("UnitsConversionException")
    ELSE IF Units__repr__(newunits) \notin DOMAIN Conversions(Units__repr__(self))
    THEN Raised("UnitsConversionException")
    ELSE Returned(Conversions(Units__repr__(self))[Units__repr__(newunits)])

\* convfunc(x)
Converted(convfunc, x) == RatAdd(convfunc[1], RatMul(convfunc[2], x))

\* the quantity after a setter ran and what the setter raised
Assigned(self, exc) == [self |-> self, exc |-> exc]

\* self.v, self.p = vp_from_number(newval), then self.u = newunits
PQ_units_assign(self, vp, newunits) ==
    IF vp.exc # "" THEN Assigned(self, vp.exc)
    ELSE Assigned([self EXCEPT !.v = vp.val.v, !.p = vp.val.p, !.u = newunits],
                  "")

\* the branch of the setter for a quantity that has units
PQ_units_convert(cls, self, convfunc, newunits) ==
    IF convfunc.exc # "" THEN Assigned(self, convfunc.exc)
    ELSE PQ_units_assign(self,
             vp_from_number(cls, Converted(convfunc.val, PQ_vp(self))),
             newunits)

\* the setter after newunits = Units.from_any(val)
PQ_units_relabel(cls, self, newunits) ==
    IF newunits.exc # "" THEN Assigned(self, newunits.exc)
    ELSE IF ~unitless(self.u)
    THEN PQ_units_convert(cls, self, convert_to(self.u, newunits.val),
                          newunits.val)
    ELSE Assigned([self EXCEPT !.u = newunits.val], "")

\* a setter that assigns self.u before it converts the value
PQ_units_setter_early(cls, self, val) ==
    IF from_any(val).exc # "" THEN Assigned(self, from_any(val).exc)
    ELSE Assigned([PQ_units_relabel(cls, self, from_any(val)).self
                      EXCEPT !.u = from_any(val).val],
                  PQ_units_relabel(cls, self, from_any(val)).exc)

\* the setter of PhysicalQuantity.units
PQ_units_setter(cls, self, val) == PQ_units_relabel(cls, self, from_any(val))

\* the values and the unit strings of the quantities whose units are set
SetterValues == { <<2, 1>>, <<400, 1>>, <<1000, 1>> }

SetterStrings == { <<"H", "z">>, <<"N">>, <<"m">>, <<>> }

\* the values assigned to units
SetterUnits ==
    { Str(str) : str \in SetterStrings \cup {<<"r", "p", "m">>, <<"N", "r">>} }
    \cup { Scalar(<<5, 1>>) }

\* qa.units = val
SetUnitsA(val) ==
    /\ qa # NoPQ
    /\ qa' = PQ_units_setter(prefix_cls, qa, val).self
    /\ plast' = Call("units", val, qa, NoPQ,
                     Raised(PQ_units_setter(prefix_cls, qa, val).exc))
    /\ UNCHANGED <<prefix_cls, qb, parseVars, unitVars, cfgVars, dpqVars,
                   loadVars>>

NextUnitsSetter ==
    \/ \E x \in SetterValues, str \in SetterStrings : FromValueA(x, str)
    \/ \E val \in SetterUnits : SetUnitsA(val)

SpecUnitsSetter == InitPQ /\ [][NextUnitsSetter]_vars

(***************************************************************************)
(* Products and quotients of quantities that are kept and added            *)
(***************************************************************************)

MaxPower == 1       \* largest exponent, in magnitude, of a kept quantity

CancelValues == { <<2, 1>>, <<400, 1>> }

\* the quantity c of b = (a * c) / c
CancelQuantities(cls) == { from_value(cls, <<1, 1>>, <<"k", "g">>).val }

\* the result r is a quantity whose exponents stay within MaxPower
KeptQuantity(r) ==
    /\ r.exc = "" /\ IsPQ(r.val)
    /\ \A k \in DOMAIN r.val.u.s :
          r.val.u.s[k] <= MaxPower /\ 0 - r.val.u.s[k] <= MaxPower

\* qb = self op other; the call is recorded
IntoQb(op, self, other, r) ==
    /\ KeptQuantity(r)
    /\ qb' = r.val
    /\ plast' = Call(op, <<>>, self, other, r)
    /\ UNCHANGED <<prefix_cls, qa, parseVars, unitVars, cfgVars, dpqVars,
                   loadVars>>

\* qb = self * other
ProductIntoQb(self, other) ==
    IntoQb("mul", self, other, PQ__mul__(prefix_cls, self, other))

\* qb = self / other
QuotientIntoQb(self, other) ==
    IntoQb("truediv", self, other, PQ__truediv__(prefix_cls, self, other))

NextCancel ==
    \/ \E x \in CancelValues, str \in PQUnitStrings : FromValueA(x, str)
    \/ \E self \in Quantities, other \in CancelQuantities(prefix_cls) :
          \/ ProductIntoQb(self, other)
          \/ QuotientIntoQb(self, other)
    \/ \E self \in Quantities, other \in Quantities : PQAdd(self, other)

SpecCancel == InitPQ /\ [][NextCancel]_vars

(***************************************************************************)
(* The toggles of pyee/__init__.py next to the arithmetic on quantities    *)
(***************************************************************************)

NextConfig ==
    \/ \E value \in BOOLEAN : SetUnitMissmatch(value)
    \/ \E value \in BOOLEAN : SetUnitlessOperators(value)
    \/ \E default \in BOOLEAN : NewBooleanConfigParameter(default)
    \/ \E x \in CancelValues, str \in PQUnitStrings : FromValueA(x, str)
    \/ \E x \in CancelValues, str \in PQUnitStrings : FromValueB(x, str)
    \/ \E self \in Quantities, other \in Quantities : PQAdd(self, other)

SpecConfig == InitPQ /\ [][NextConfig]_vars

(***************************************************************************)
(* Properties of Units                                                     *)
(***************************************************************************)

NoZeroExponent(x) == \A k \in DOMAIN x.s : x.s[k] # 0

\* C1: for every Units u made by Units.from_string, u / u and u * (1/u)
\* compare equal to Units.create_unitless() and report unitless == True.
GroupLaw ==
    /\ (ulast.op = "truediv" /\ ulast.a = u1 /\ ulast.b = u1)
           => (Units__eq__(u2, create_unitless) /\ unitless(u2))
    /\ (ulast.op = "mul" /\ ulast.a = u1 /\ ulast.b = Units__rtruediv__one(u1))
           => (Units__eq__(u2, create_unitless) /\ unitless(u2))

\* C2: after any sequence of from_string, *, /, 1/u and as_base, the
\* exponent mapping of every resulting Units holds no exponent 0.
CanonicalForm ==
    \A x \in {u1, u2} : x # NoUnits => NoZeroExponent(x)

\* the mapping the grammar assigns to an assembled string: the numerator
\* token counts +1, every token of every "/" segment counts -1
RECURSIVE NegateTokens(_, _)
NegateTokens(d, toks) ==
    IF toks = <<>> THEN d ELSE NegateTokens(DictAdd(d, toks[1], -1), Tail(toks))

RECURSIVE NegateSegs(_, _)
NegateSegs(d, segs) ==
    IF segs = <<>> THEN d
    ELSE NegateSegs(NegateTokens(d, segs[1].toks), Tail(segs))

ChainExpected(chain) ==
    DictNonZero(NegateSegs(DictAdd(EmptyDict, chain.num, 1), chain.segs))

\* C3: Units.from_string negates the exponent of every token of every
\* top-level "/" segment, be it a single token or a parenthesized group,
\* whatever the number of tokens in the preceding group.
ChainedDenominators ==
    (parsed # NotCalled /\ uchain # NoChain)
        => (parsed.exc = "" /\ parsed.val.s = ChainExpected(uchain))

RECURSIVE ParensMatch(_, _)
ParensMatch(s, depth) ==
    IF s = <<>> THEN depth = 0
    ELSE IF s[1] = "(" THEN ParensMatch(Tail(s), depth + 1)
    ELSE IF s[1] = ")" THEN depth > 0 /\ ParensMatch(Tail(s), depth - 1)
    ELSE ParensMatch(Tail(s), depth)

IsParen(c) == c \in {"(", ")"}

NotParen(c) == ~IsParen(c)

\* the tokens of a unit string: the pieces between "/" and ".", without
\* their parentheses
TokensOf(s) ==
    LET nds == Split(SelectSeq(s, NotParen), "/")
    IN  UNION {{Split(nds[i], ".")[j] : j \in 1..Len(Split(nds[i], "."))} :
                   i \in 1..Len(nds)}

BadToken(t) ==
    LET parts == Split(t, "^")
    IN  Len(parts) > 2 \/ (Len(parts) = 2 /\ ~IsIntLiteral(parts[2]))

Malformed(s) == ~ParensMatch(s, 0) \/ \E t \in TokensOf(s) : BadToken(t)

\* C4: Units.from_string raises UnitsConstructionException, and returns no
\* Units, for every string with an unmatched parenthesis, a token with more
\* than one "^", or a non-integer exponent.
MalformedRejected ==
    (parsed # NotCalled /\ Malformed(ustring))
        => parsed.exc = "UnitsConstructionException"

\* C5: for every Units u whose mapping holds only nonzero exponents,
\* Units.from_string(str(u)) == u.
RoundTrip ==
    (ulast.op = "from_string" /\ ulast.a # NoUnits /\ NoZeroExponent(ulast.a))
        => (ulast.out.exc = "" /\ Units__eq__(ulast.out.val, ulast.a))

\* a round trip of a Units with a numerator, a denominator of two symbols
\* and an exponent below -1
RoundTripWitness ==
    /\ ulast.op = "from_string" /\ ulast.a # NoUnits /\ NoZeroExponent(ulast.a)
    /\ \E k1, k2, k3 \in DOMAIN ulast.a.s :
          /\ k2 # k3
          /\ ulast.a.s[k1] > 0 /\ ulast.a.s[k2] = -1 /\ ulast.a.s[k3] < -1
    /\ Units__eq__(ulast.out.val, ulast.a)

(***************************************************************************)
(* Properties of Prefix and PhysicalQuantity                               *)
(***************************************************************************)

TableFactors == {SI_prefixes[sym].factor : sym \in DOMAIN SI_prefixes}

SmallestFactor == CHOOSE f \in TableFactors : \A g \in TableFactors : RatLeq(f, g)

\* C6: for every negative x, Prefix.from_number(x) returns the prefix it
\* returns for |x|.
NegativeByMagnitude ==
    (plast.op = "from_number" /\ plast.a.num[1] < 0)
        => /\ plast.out.exc = ""
           /\ plast.out = from_number(prefix_cls, RatAbs(plast.a.num))

\* C7: if |x| is smaller than every table factor (x = 0 included),
\* Prefix.from_number(x) returns the prefix of the smallest factor and does
\* not raise.
BelowRangeSmallest ==
    (plast.op = "from_number" /\ RatLess(RatAbs(plast.a.num), SmallestFactor))
        => (plast.out.exc = "" /\ plast.out.val.f = SmallestFactor)

\* C8: for every positive x inside the table's range, Prefix.from_number(x)
\* returns the prefix of the largest table factor that is <= x; a value
\* equal to a factor selects that factor.
LargestFactorBelow ==
    (plast.op = "from_number" /\ RatLeq(SmallestFactor, plast.a.num))
        => /\ plast.out.exc = ""
           /\ plast.out.val.f \in TableFactors
           /\ RatLeq(plast.out.val.f, plast.a.num)
           /\ \A g \in TableFactors :
                  RatLeq(g, plast.a.num) => RatLeq(g, plast.out.val.f)
           /\ SI_prefixes[plast.out.val.s].factor = plast.out.val.f

\* Prefix.from_number(1000) returned "k"
LargestFactorBelowWitness ==
    /\ plast.op = "from_number" /\ plast.a.num = <<1000, 1>>
    /\ plast.out.exc = "" /\ plast.out.val.s = "k"

SubtractValue ==
    (plast.op = "sub" /\ IsPQ(plast.b) /\ Units__eq__(plast.a.u, plast.b.u))
        => /\ plast.out.exc = ""
           /\ plast.out.val.u = plast.a.u
           /\ PQ_value(plast.out.val)
                  = RatSub(PQ_value(plast.a), PQ_value(plast.b))

(***************************************************************************)
(* PhysicalQuantity multiplication, the value setter and the mismatch      *)
(* toggle                                                                  *)
(***************************************************************************)

LargestFactor == CHOOSE f \in TableFactors : \A g \in TableFactors : RatLeq(g, f)

\* the factor the prefix rule selects for x: the largest factor <= |x|, the
\* smallest factor when there is none
RebalancedFactor(x) ==
    LET below == {f \in TableFactors : RatLeq(f, RatAbs(x))}
    IN  IF below = {} THEN SmallestFactor
        ELSE CHOOSE f \in below : \A g \in below : RatLeq(g, f)

\* the value of an operand: a quantity's value or the bare number
OperandValue(x) == IF IsPQ(x) THEN PQ_value(x) ELSE x.num

\* C11: a * b has value a.value * b.value and units a.units * b.units, a * k
\* for a bare number k has value a.value * k and a's units, and the result's
\* prefix and mantissa are the rebalanced pair for that value.
MultiplyValue ==
    plast.op = "mul" =>
        LET t == RatMul(PQ_value(plast.a), OperandValue(plast.b))
            r == plast.out.val
        IN  /\ plast.out.exc = ""
            /\ PQ_value(r) = t
            /\ r.p.f = RebalancedFactor(t)
            /\ r.v = RatDiv(t, RebalancedFactor(t))
            /\ Units__eq__(r.u, IF IsPQ(plast.b)
                                THEN Units__mul__(plast.a.u, plast.b.u)
                                ELSE plast.a.u)

\* the calls that store or return a rebalanced mantissa, and the true value
\* each of them is given
StoresValue(c) ==
    \/ c.op \in {"from_value", "value", "mul", "rsub"}
    \/ c.op \in {"add", "sub"}
           /\ (IsPQ(c.b) => Units__eq__(c.a.u, c.b.u))
    \/ c.op = "truediv" /\ OperandValue(c.b)[1] # 0
    \/ c.op = "rtruediv" /\ PQ_value(c.a)[1] # 0

TrueValue(c) ==
    CASE c.op = "from_value" -> c.a.num
      [] c.op = "value" -> c.b.num
      [] c.op = "mul" -> RatMul(PQ_value(c.a), OperandValue(c.b))
      [] c.op = "add" -> RatAdd(PQ_value(c.a), OperandValue(c.b))
      [] c.op = "sub" -> RatSub(PQ_value(c.a), OperandValue(c.b))
      [] c.op = "rsub" -> RatSub(c.b.num, PQ_value(c.a))
      [] c.op = "truediv" -> RatDiv(PQ_value(c.a), OperandValue(c.b))
      [] c.op = "rtruediv" -> RatDiv(c.b.num, PQ_value(c.a))

\* x is nonzero and its magnitude lies inside the table's range
InTableRange(x) ==
    /\ x[1] # 0
    /\ RatLeq(SmallestFactor, RatAbs(x))
    /\ RatLess(<<RatAbs(x)[1] \div x[2], 1>>, RatMul(LargestFactor, <<1000, 1>>))

WellFormatted(q, x) ==
    /\ RatLeq(<<1, 1>>, RatAbs(q.v)) /\ RatLess(RatAbs(q.v), <<1000, 1>>)
    /\ RatMul(q.v, q.p.f) = x

\* C12: after from_value, the value setter or an arithmetic operator given a
\* nonzero true value whose magnitude is inside the table's range, the
\* stored mantissa v has 1 <= |v| < 1000 and v * p.f is the true value.
WellFormattedAfter ==
    (StoresValue(plast) /\ InTableRange(TrueValue(plast)))
        => /\ plast.out.exc = ""
           /\ WellFormatted(plast.out.val, TrueValue(plast))
           /\ (plast.op = "value" => WellFormatted(qa, TrueValue(plast)))

\* C13: while ERROR_ON_UNIT_MISSMATCH is false, a + b and a - b on
\* quantities with different units do not raise, and the result has a's
\* units and the value a.value + b.value (a.value - b.value).
PermissiveMismatch ==
    [][(/\ BooleanConfigParameter = FALSE /\ BooleanConfigParameter' = FALSE
        /\ plast'.op \in {"add", "sub"}
        /\ IsPQ(plast'.b)
        /\ Units__ne__(plast'.a.u, plast'.b.u))
           => /\ plast'.out.exc = ""
              /\ Units__eq__(plast'.out.val.u, plast'.a.u)
              /\ PQ_value(plast'.out.val) = TrueValue(plast')]_vars

(***************************************************************************)
(* Units + and - as compatibility checks, and Units immutability           *)
(***************************************************************************)

\* C14: Units + and - and their reflected forms return None without raising
\* when both operands are structurally equal Units, and when the Units
\* operand is unitless and the other operand is not a Units instance; in
\* every other case they raise UnitsMissmatchException.
CompatibilityCheck ==
    ulast.op \in {"add", "sub", "radd", "rsub"} =>
        IF \/ IsUnits(ulast.b) /\ ulast.a.s = ulast.b.s
           \/ Cardinality(DOMAIN ulast.a.s) = 0 /\ ~IsUnits(ulast.b)
        THEN ulast.out = Returned(None)
        ELSE ulast.out.exc = "UnitsMissmatchException"

\* C15: multiply, divide, as_base and simplify, with or without a context
\* argument, leave the receiver's mapping and context tag as they were and
\* return an instance distinct from the receiver.
UnitsImmutable ==
    ulast.op \in {"mul", "truediv", "as_base", "simplify"} =>
        /\ ulast.arg.after = ulast.a
        /\ ulast.out.exc = "" => ~ulast.arg.same

(***************************************************************************)
(* Properties of the passive components and of DependantPhysicalQuantity   *)
(***************************************************************************)

\* the resistors R with R + c = z under ERROR_ON_Z_TRANSFORM false
SummedWith(z, c) ==
    { R \in Components(prefix_cls) :
        /\ R.type = "Resistor"
        /\ PassiveComponent__add__(prefix_cls, FALSE, R, c) = Returned(z) }

\* num / den is the constant polynomial k: num = k * den, coefficient by
\* coefficient
IsConstant(z, k) ==
    \A i \in 1..PadLen(z.num, z.den) :
        Pad(z.num, PadLen(z.num, z.den))[i]
            = RatMul(k, Pad(z.den, PadLen(z.num, z.den))[i])

\* C16: with ERROR_ON_Z_TRANSFORM false, for a Resistor R and a Capacitor C
\* the expression (R + C) - C evaluates without error to an object that has
\* simplify() and that stands for the impedance of R alone, the ratio
\* num / den being the constant R (num = [R], den = [1] once simplified).
ImpedanceIdentity ==
    (/\ zlast.op = "sub" /\ zlast.arg = FALSE
     /\ HasZ(zlast.b) /\ zlast.b.type = "Capacitor"
     /\ SummedWith(zlast.a, zlast.b) # {})
        => /\ zlast.out.exc = ""
           /\ zlast.out.val.type = "Impedance"
           /\ \A R \in SummedWith(zlast.a, zlast.b) :
                  IsConstant(zlast.out.val, PQ_vp(R))

\* the dependant quantities held or just returned
Reachable ==
    Dependants \cup
    (IF zlast.out.exc = "" /\ IsDPQ(zlast.out.val) THEN {zlast.out.val}
     ELSE {})

DenDefined(z) == Len(z.den) > 0 /\ \E i \in 1..Len(z.den) : z.den[i][1] # 0

\* C17: every DependantPhysicalQuantity reached from values constructed with
\* a non-zero den by +, -, *, / and their reflections has a den array that
\* is non-empty and not all zero.
DenominatorDefined == \A z \in Reachable : DenDefined(z)

\* the same polynomial: equal coefficients once the shorter array is padded
SamePoly(c, d) == Pad(c, PadLen(c, d)) = Pad(d, PadLen(c, d))

\* the units the claim gives the result of a * x (div FALSE) or a / x
CombinedUnits(a, x, div) ==
    IF ~IsDPQ(x) /\ ~IsPQ(x) THEN a.u
    ELSE IF div THEN Units__truediv__(a.u, x.u)
    ELSE Units__mul__(a.u, x.u)

\* C18: for a DependantPhysicalQuantity a, a * x and a / x succeed for x a
\* DependantPhysicalQuantity, a PhysicalQuantity or a bare number, whatever
\* the units and the coefficients (a zero numerator included); with x a
\* DependantPhysicalQuantity b the arrays are the polynomial products
\* (a * b: num = a.num*b.num, den = a.den*b.den; a / b: num = a.num*b.den,
\* den = a.den*b.num); the units are a.units * x.units or a.units / x.units,
\* and a's units for a bare number.
MultiplyDivide ==
    (zlast.op \in {"mul", "truediv"})
        => /\ zlast.out.exc = ""
           /\ Units__eq__(zlast.out.val.u,
                  CombinedUnits(zlast.a, zlast.b, zlast.op = "truediv"))
           /\ (IsDPQ(zlast.b) /\ zlast.op = "mul")
                  => /\ SamePoly(zlast.out.val.num,
                                 FullMul(zlast.a.num, zlast.b.num))
                     /\ SamePoly(zlast.out.val.den,
                                 FullMul(zlast.a.den, zlast.b.den))
           /\ (IsDPQ(zlast.b) /\ zlast.op = "truediv")
                  => /\ SamePoly(zlast.out.val.num,
                                 FullMul(zlast.a.num, zlast.b.den))
                     /\ SamePoly(zlast.out.val.den,
                                 FullMul(zlast.a.den, zlast.b.num))

\* a.num*b.den + a.den*b.num, or the difference for a - b
CrossSum(a, b, sub) ==
    IF sub THEN polysub(FullMul(a.num, b.den), FullMul(a.den, b.num))
    ELSE polyadd(FullMul(a.num, b.den), FullMul(a.den, b.num))

\* C19: for DependantPhysicalQuantity a and b with equal units, a + b has
\* den = a.den*b.den and num = a.num*b.den + a.den*b.num (a - b the
\* difference), a's units and a's var0; with unequal units the operation
\* raises UnitsMissmatchException.
CrossMultiplied ==
    (zlast.op \in {"add", "sub"} /\ IsDPQ(zlast.a) /\ IsDPQ(zlast.b))
        => IF Units__eq__(zlast.a.u, zlast.b.u)
           THEN /\ zlast.out.exc = ""
                /\ SamePoly(zlast.out.val.den,
                            FullMul(zlast.a.den, zlast.b.den))
                /\ SamePoly(zlast.out.val.num,
                            CrossSum(zlast.a, zlast.b, zlast.op = "sub"))
                /\ Units__eq__(zlast.out.val.u, zlast.a.u)
                /\ zlast.out.val.var0 = zlast.a.var0
           ELSE zlast.out.exc = "UnitsMissmatchException"

\* the number an explicit argument of a call stands for
PointOf(var) == IF IsPQ(var) THEN PQ_vp(var) ELSE var.num

\* C20: a call z(x) fails for lack of a default point exactly when x is
\* omitted and var0 is unset: with x omitted and var0 unset it fails, with
\* an explicit x (a bare number or a PhysicalQuantity) and var0 unset it is
\* the evaluation at x, and with x omitted and var0 set it is the
\* evaluation at var0.
DefaultPoint ==
    (zlast.op = "call")
        => /\ (zlast.b = NoPQ /\ zlast.a.var0 = NoPQ) => zlast.out.exc # ""
           /\ (zlast.b # NoPQ /\ zlast.a.var0 = NoPQ)
                  => zlast.out = EvaluateAt(prefix_cls, zlast.a,
                                            PointOf(zlast.b))
           /\ (zlast.b = NoPQ /\ zlast.a.var0 # NoPQ)
                  => zlast.out = EvaluateAt(prefix_cls, zlast.a,
                                            PQ_vp(zlast.a.var0))

(***************************************************************************)
(* Evaluation, Impedance.simplify, parallel components and the remaining   *)
(* properties                                                              *)
(***************************************************************************)

\* the call z(x) the last step made, x given explicitly
ExplicitCall == zlast.op = "call" /\ zlast.b # NoPQ

\* x is a PhysicalQuantity whose units differ from the units of var0
PointUnitsDiffer ==
    /\ IsPQ(zlast.b) /\ zlast.a.var0 # NoPQ
    /\ Units__ne__(zlast.a.var0.u, zlast.b.u)

\* C21: evaluating a DependantPhysicalQuantity at x returns a
\* PhysicalQuantity whose true value is num(x)/den(x) and whose units are
\* the instance's units, for every x at which den(x) is non-zero (a zero or
\* negative quotient included); if x is a PhysicalQuantity whose units
\* differ from var0's units it raises UnitsMissmatchException instead.
EvaluatesQuotient ==
    ExplicitCall
        => IF PointUnitsDiffer
           THEN zlast.out.exc = "UnitsMissmatchException"
           ELSE polyeval(zlast.a.den, PointOf(zlast.b))[1] # 0
                    => /\ zlast.out.exc = ""
                       /\ IsPQ(zlast.out.val)
                       /\ PQ_value(zlast.out.val)
                              = RatDiv(polyeval(zlast.a.num, PointOf(zlast.b)),
                                       polyeval(zlast.a.den, PointOf(zlast.b)))
                       /\ Units__eq__(zlast.out.val.u, zlast.a.u)

\* how often r occurs in the list l
Count(l, r) == Cardinality({i \in 1..Len(l) : l[i] = r})

\* the multiplicity of r in the numerator roots minus that in the
\* denominator roots
Excess(nz, dz, r) == Count(nz, r) - Count(dz, r)

\* the loop of a call has been entered and the call has not raised
LoopEntered == simp.pc \in {"loop", "done"} /\ simp.exc = ""

\* what holds of the root lists during and after the loop
LoopInvariant ==
    LoopEntered
        => /\ simp.simpset <= MaxPasses
           /\ \A r \in Elements(simp.nz0) \cup Elements(simp.dz0) :
                  Excess(simp.nz, simp.dz, r) = Excess(simp.nz0, simp.dz0, r)
           /\ (simp.pc = "done" /\ simp.simpset < MaxPasses)
                  => CommonRoots(simp.nz, simp.dz) = {}

\* a pass takes one instance of every shared root, and nothing else, from
\* both lists
PassRemovesOne ==
    (simp.pc = "loop" /\ simp'.pc = "loop" /\ simp' # simp)
        => /\ simp'.simpset = simp.simpset + 1
           /\ CommonRoots(simp.nz, simp.dz) # {}
           /\ \A r \in Elements(simp.nz) \cup Elements(simp.dz) :
                  IF r \in CommonRoots(simp.nz, simp.dz)
                  THEN /\ Count(simp'.nz, r) = Count(simp.nz, r) - 1
                       /\ Count(simp'.dz, r) = Count(simp.dz, r) - 1
                  ELSE /\ Count(simp'.nz, r) = Count(simp.nz, r)
                       /\ Count(simp'.dz, r) = Count(simp.dz, r)

SamplePoints == { <<1, 1>>, <<2, 1>>, <<-1, 2>> }

\* C23: Impedance.simplify removes k low-order coefficients from num and den
\* only when the first k coefficients of both arrays are zero (within tol),
\* whatever the sign of the other coefficients (num = [-1, 1], den = [0, 1]
\* must lose nothing), so the shift never changes the value of
\* num(x)/den(x) at any non-zero x.
ShiftOnlyZeros ==
    (simp.pc = "roots")
        => /\ \A i \in 1..simp.shift :
                  /\ WithinTol(simp.num0[i], simp.tol.num)
                  /\ WithinTol(simp.den0[i], simp.tol.num)
           /\ \A x \in SamplePoints :
                  RatMul(polyeval(simp.num0, x), polyeval(za.den, x))
                      = RatMul(polyeval(za.num, x), polyeval(simp.den0, x))

\* the last step was x | y for two components of one class
SameTypeOr ==
    /\ zlast.op = "or" /\ HasZ(zlast.a) /\ HasZ(zlast.b)
    /\ zlast.a.type = zlast.b.type

\* a * b / (a + b) for the values of two components
ParallelValue(a, b) ==
    RatDiv(RatMul(PQ_vp(a), PQ_vp(b)), RatAdd(PQ_vp(a), PQ_vp(b)))

\* C24: the parallel combination of two passive components of the same
\* concrete type returns a component of that type with value a*b/(a+b):
\* Resistor | Resistor is a Resistor, Inductor | Inductor is an Inductor,
\* Capacitor | Capacitor is a Capacitor; Resistor(R) | Resistor(R) is a
\* Resistor of value R/2.
ParallelSameType ==
    SameTypeOr
        => /\ zlast.out.exc = ""
           /\ HasZ(zlast.out.val)
           /\ zlast.out.val.type = zlast.a.type
           /\ PQ_vp(zlast.out.val) = ParallelValue(zlast.a, zlast.b)

\* the last step was a + b or a - b for two components of different classes
MismatchedSum ==
    /\ zlast.op \in {"component add", "component sub", "sum", "difference"}
    /\ HasZ(zlast.a) /\ HasZ(zlast.b)
    /\ zlast.a.type # zlast.b.type

\* that step was a subtraction
WasDifference == zlast.op \in {"component sub", "difference"}

\* the numerator and the denominator of n1/d1 + n2/d2 and of n1/d1 - n2/d2
\* over the common denominator d1*d2
SumOverCommon(aZ, bZ, sub) ==
    [num |-> IF sub
             THEN polysub(polymul(aZ.num, bZ.den).val,
                          polymul(aZ.den, bZ.num).val)
             ELSE polyadd(polymul(aZ.num, bZ.den).val,
                          polymul(aZ.den, bZ.num).val),
     den |-> polymul(aZ.den, bZ.den).val]

\* the outcome out is the rational function aZ + bZ or aZ - bZ in V/A
IsSumOfZ(out, aZ, bZ, sub) ==
    /\ out.exc = "" /\ IsDPQ(out.val)
    /\ out.val.num = SumOverCommon(aZ, bZ, sub).num
    /\ out.val.den = SumOverCommon(aZ, bZ, sub).den
    /\ Units__eq__(out.val.u, from_string(<<"V", "/", "A">>).val)

Finished ==
    { c \in DOMAIN callers :
        callers[c].pc = "done" /\ callers[c].op = "from_number" }

\* C26: under concurrent first use of Prefix the prefix table is loaded
\* exactly once, and no caller performs a lookup against tables that are
\* not yet fully populated.
LoadedOnce ==
    /\ loads <= 1
    /\ \A c \in Finished : callers[c].seen = reload_data

\* the last step assigned plast.arg to the units of plast.a, and qa is that
\* quantity after the assignment
UnitsWereSet == plast.op = "units"

\* the true value the assignment has to leave in a quantity that had units
ConvertedValue(before, newunits) ==
    Converted(convert_to(before.u, newunits).val, PQ_vp(before))

\* C27: assigning PhysicalQuantity.units is all-or-nothing: on a quantity
\* that has units it applies convert_to(old -> new) to the true value and
\* then relabels; on a unitless quantity it relabels and keeps the true
\* value; and if convert_to raises UnitsConversionException (or anything
\* else is raised) v, p and u are left exactly as before the assignment.
UnitsAllOrNothing ==
    UnitsWereSet
        => IF plast.out.exc # "" THEN qa = plast.a
           ELSE /\ qa.u = from_any(plast.arg).val
                /\ PQ_vp(qa) = IF unitless(plast.a.u) THEN PQ_vp(plast.a)
                               ELSE ConvertedValue(plast.a, qa.u)

\* convert_to raised UnitsConversionException for a quantity in N that was
\* to become one in rpm, and the quantity is as it was
UnitsAllOrNothingWitness ==
    /\ UnitsWereSet
    /\ plast.out.exc = "UnitsConversionException"
    /\ Units__repr__(plast.a.u) = <<"N">>
    /\ plast.arg = Str(<<"r", "p", "m">>)
    /\ qa = plast.a

\* the last step built an Impedance without an explicit frequency
BuiltByDefault == zlast.op = "Impedance" /\ zlast.a = Omitted

\* the construction succeeded with the default evaluation point x
BuiltAtPoint(x) ==
    /\ zlast.out.exc = ""
    /\ zlast.out.val.var0 # NoPQ
    /\ PQ_vp(zlast.out.val.var0) = x

\* C28: an Impedance constructed without an explicit frequency has default
\* evaluation point 1000 when frequency_units is "Hz" and 2000*pi when
\* frequency_units is "rad/s"; any other frequency_units is rejected with
\* ValueError.
ImpedanceDefaultPoint ==
    BuiltByDefault
        => IF zlast.b = Str(<<"H", "z">>) THEN BuiltAtPoint(<<1000, 1>>)
           ELSE IF zlast.b = Str(<<"r", "a", "d", "/", "s">>)
           THEN BuiltAtPoint(Rat(TwoThousandPi[1], TwoThousandPi[2]))
           ELSE zlast.out = Raised("ValueError")

\* the two Units have the same exponent for every symbol, a symbol that is
\* absent counting as exponent 0
SameDimension(ua, ub) ==
    \A k \in UnionKeys(ua.s, ub.s) : DictGet(ua.s, k) = DictGet(ub.s, k)

\* the last step was a + b for two quantities of the same dimension
AddedSameDimension ==
    /\ plast.op = "add" /\ IsPQ(plast.a) /\ IsPQ(plast.b)
    /\ SameDimension(plast.a.u, plast.b.u)

\* C29: the dimension guard of PhysicalQuantity accepts every dimensionally
\* equal pair: when the units of b come from Units arithmetic that cancels
\* a symbol, as in b = (a * c) / c, b.units == a.units and a + b succeeds
\* with true value a.value + b.value.
GuardAcceptsEqualDimension ==
    AddedSameDimension
        => /\ Units__eq__(plast.b.u, plast.a.u)
           /\ plast.out.exc = ""
           /\ PQ_vp(plast.out.val) = RatAdd(PQ_vp(plast.a), PQ_vp(plast.b))

\* C30: the process-wide boolean toggles are independent pieces of state:
\* after any sequence of set() calls the value read from
\* ERROR_ON_UNITLESS_OPERATORS is the last value set on it (or its default)
\* and is never changed by constructing or setting ERROR_ON_UNIT_MISSMATCH,
\* and the other way round.
TogglesIndependent ==
    \A name \in Toggles :
        Toggle_get(BooleanConfigParameter, name) = lastset[name]

====
